---- MODULE Spec2Model ----
(***************************************************************************)
(* The selector loop of cloudflare-cname-switcher (Ingress::run), with the *)
(* endpoint monitors that feed it and the Cloudflare reconciler it calls.  *)
(*                                                                         *)
(* Time is counted in whole seconds (the unit of every configured          *)
(* duration).  Options are sequences: None is <<>>, Some(v) is <<v>>.      *)
(***************************************************************************)
EXTENDS Integers, Sequences, FiniteSets, TLC

\* ---------------------------------------------------------------- bounds
\* cap on the number of change events waiting in the (unbounded) channel
MaxQueue == 1
\* seconds the clock runs beyond the longest configured sticky_duration
TimeSlack == 1

\* ------------------------------------------------------ program constants
\* for _ in 0..3 (ingress.rs:293)
RetryAttempts == 3
\* + Duration::from_secs(1) (ingress.rs:151, 157)
WakeupCushion == 1

None == <<>>
Some(v) == <<v>>


\* ---------------------------------------------------------- configuration
\* Endpoint::from_yaml: weight (u8), sticky_duration (Option<Duration>) and
\* whether a monitoring section is present.
Endpoint(weight, sticky_duration, monitoring) ==
    [weight |-> weight, sticky_duration |-> sticky_duration, monitoring |-> monitoring]

\* Two endpoints of equal weight: E2 without stickiness, E3 with
\* sticky_duration: 0 (from_yaml accepts every integer)
EndpointsTies ==
    [e \in {"E2", "E3"} |->
        CASE e = "E2" -> Endpoint(20, None, TRUE)
          [] e = "E3" -> Endpoint(20, Some(0), TRUE)]

\* E2 and E3 sticky, E3 without a monitoring section (healthy once its monitor ran)
EndpointsFallback ==
    [e \in {"E1", "E2", "E3"} |->
        CASE e = "E1" -> Endpoint(10, None, TRUE)
          [] e = "E2" -> Endpoint(20, Some(2), TRUE)
          [] e = "E3" -> Endpoint(30, Some(1), FALSE)]

\* the endpoints of the documented scenarios (ingress.rs:110-116)
EndpointsScenario ==
    [e \in {"E1", "E2", "E3"} |->
        CASE e = "E1" -> Endpoint(10, None, TRUE)
          [] e = "E2" -> Endpoint(20, Some(30), TRUE)
          [] e = "E3" -> Endpoint(30, Some(30), TRUE)]

\* Ingress::from_yaml: the endpoints, the iteration order of the HashSet that
\* holds them (arbitrary, but the same for the whole run) and whether a
\* telegram section is present.
Ingress(eps, order, tg) == [endpoints |-> eps, iteration_order |-> order, telegram |-> tg]

Configurations ==
    { Ingress(EndpointsTies, <<"E2", "E3">>, TRUE),
      Ingress(EndpointsTies, <<"E3", "E2">>, FALSE),
      Ingress(EndpointsFallback, <<"E2", "E1", "E3">>, TRUE) }

VARIABLES
    endpoints,                 \* Ingress.endpoints: name -> configuration
    iteration_order,           \* order of self.endpoints.iter()
    telegram,                  \* Ingress.telegram.is_some()
    healthy,                   \* Endpoint.healthy, per endpoint
    monitor,                   \* position of each monitor task
    change_rx,                 \* the change-event channel
    now,                       \* the clock
    last_active_endpoints,     \* set of (endpoint, timestamp, primary)
    status_cache,              \* CloudflareConfiguration.status_cache
    gauge_endpoint_selected,   \* endpoint_selected{name}
    pc,                        \* position of the selector in its loop
    wakeup_at,                 \* deadline of the sticky sleep of this select
    slept,                     \* seconds the telegram sleep of this select has run
    healthy_endpoints,         \* local: the endpoints read as healthy
    new_prioritized_endpoint,  \* local: Option of the chosen primary entry
    new_active_endpoints,      \* local
    attempts,                  \* update() calls made in the current / most recent iteration
    trigger,                   \* what woke the running cycle ("none" outside one)
    outcome,                   \* how the most recent iteration ended
    queue_and_send,            \* Option: message handed to queue_and_send in it
    records,                   \* the provider's records of the managed name
    record_ttl,                \* the ttl of each of them: set of <<record, ttl>>
    tampered,                  \* somebody else changed the records of the name
    upc,                       \* position of the running update() call
    desired,                   \* inner_update: Option of `state`
    path,                      \* inner_update: the path taken (full_cleanup / just_update)
    record_ids,                \* inner_update: the enumerated records not yet deleted
    to_create,                 \* inner_update: the records not yet created
    api_calls,                 \* the provider requests of the current / most recent call
    before,                    \* the records when the current / most recent call began
    result,                    \* what the most recent update() call returned
    conflict,                  \* a call of the current / most recent cycle returned Conflict
    threshold,                 \* MonitoringConfiguration.confidence of MonitoredEndpoint
    m_pc,                      \* position of the monitor of MonitoredEndpoint
    confidence,                \* monitor local: confidence (u8)
    first_run,                 \* monitor local
    last_dns_values,           \* monitor local
    last_problem,              \* MonitoringConfiguration.last_problem
    streak,                    \* successful probes since the last failed one, up to threshold + 1
    queue,                     \* TelegramConfiguration.queue
    silence_until,             \* TelegramConfiguration.silence_until
    wall_clock,                \* SystemTime::now(), in ticks of half a second
    t_pc,                      \* "idle", "sending" (inside send()) or "panicked"
    posted,                    \* the contents of the POSTs that succeeded, in order
    callee,                    \* "resolve" (DnsConfiguration) or "perform" (HyperHttpClient)
    retry,                     \* the retry setting of the callee (u8)
    attempt,                   \* local of the retry loop (u8)
    r_pc,                      \* "idle", "running", "returned" or "panicked"
    answers,                   \* what the last attempt received
    returned,                  \* what the call returned
    made                       \* attempts made by the call, up to retry + 2

config == <<endpoints, iteration_order, telegram>>
locals == <<healthy_endpoints, new_prioritized_endpoint, new_active_endpoints, attempts>>
selector == <<last_active_endpoints, status_cache, gauge_endpoint_selected, pc, wakeup_at,
              slept, trigger, outcome, queue_and_send>>
reconciler == <<records, record_ttl, tampered, upc, desired, path, record_ids, to_create, api_calls,
                before, result, conflict>>
prober == <<threshold, m_pc, confidence, first_run, last_dns_values, last_problem, streak>>
notifier == <<queue, silence_until, wall_clock, t_pc, posted>>
resolver == <<callee, retry, attempt, r_pc, answers, returned, made>>
vars == <<config, healthy, monitor, change_rx, now, selector, locals, reconciler, prober,
          notifier, resolver>>

Names == DOMAIN endpoints

Weight(e) == endpoints[e].weight
StickyDuration(e) == endpoints[e].sticky_duration

Entry(e, timestamp, primary) == [endpoint |-> e, timestamp |-> timestamp, primary |-> primary]
ActiveNames(active) == {x.endpoint : x \in active}

EndpointHealthChanged(e) == [reason |-> "EndpointHealthChanged", endpoint |-> e]

\* Variant: the change of the address set is announced as a health change.
DnsValuesChangedAsHealthChanged(e) == [reason |-> "EndpointHealthChanged", endpoint |-> e]

EndpointDnsValuesChanged(e) == [reason |-> "EndpointDnsValuesChanged", endpoint |-> e]

Min(a, b) == IF a <= b THEN a ELSE b
Max(a, b) == IF a >= b THEN a ELSE b

\* ------------------------------------------------------------------ clock
RECURSIVE MaxSticky(_)
MaxSticky(names) ==
    IF names = {} THEN 0
    ELSE LET e == CHOOSE x \in names : TRUE
             d == IF StickyDuration(e) = None THEN 0 ELSE StickyDuration(e)[1]
         IN Max(d, MaxSticky(names \ {e}))

Horizon == MaxSticky(Names) + TimeSlack

Tick ==
    /\ now < Horizon
    /\ now' = now + 1
    /\ UNCHANGED <<config, notifier, resolver, reconciler, prober, healthy, monitor, change_rx, selector, locals>>

\* --------------------------------------------------------------- monitors
\* change_health(self_arc, Some(change_tx), h): nothing when the flag already
\* is h, otherwise store it and send EndpointHealthChanged.
ChangeHealth(e, h) ==
    /\ healthy[e] # h
    /\ Len(change_rx) < MaxQueue
    /\ healthy' = [healthy EXCEPT ![e] = h]
    /\ change_rx' = Append(change_rx, EndpointHealthChanged(e))

\* Endpoint::monitor up to its loop.  Without a monitoring section the endpoint
\* is marked healthy (with an event) and the task sleeps forever.  With one,
\* change_health(.., None, false) stores false without an event, and the task
\* returns when the initial resolve_dns fails.
MonitorStart(e) ==
    /\ pc # "stopped"
    /\ monitor[e] = "spawned"
    /\ IF ~endpoints[e].monitoring
       THEN /\ ChangeHealth(e, TRUE)
            /\ monitor' = [monitor EXCEPT ![e] = "parked"]
       ELSE /\ healthy' = [healthy EXCEPT ![e] = FALSE]
            /\ \E resolved \in BOOLEAN :
                  monitor' = [monitor EXCEPT ![e] = IF resolved THEN "running" ELSE "terminated"]
            /\ UNCHANGED change_rx
    /\ UNCHANGED <<config, notifier, resolver, reconciler, prober, now, selector, locals>>

\* The head of the monitor loop: healthy := (confidence >= monitoring.confidence).
\* The probes that move the confidence counter are the environment's choice, so
\* the value h is.
MonitorHealth(e) ==
    /\ pc # "stopped"
    /\ monitor[e] = "running"
    /\ \E h \in BOOLEAN : ChangeHealth(e, h)
    /\ UNCHANGED <<config, notifier, resolver, reconciler, prober, monitor, now, selector, locals>>

\* The periodic resolve_dns returned a set that differs from the last one.
MonitorDnsValuesChanged(e) ==
    /\ pc # "stopped"
    /\ monitor[e] = "running"
    /\ Len(change_rx) < MaxQueue
    /\ change_rx' = Append(change_rx, EndpointDnsValuesChanged(e))
    /\ UNCHANGED <<config, notifier, resolver, reconciler, prober, healthy, monitor, now, selector, locals>>

\* --------------------------------------------------------------- selector
\* Variant: the wakeup is set to the end of the sticky duration itself.
WakeupStepWithoutCushion(x, t, due) ==
    IF x.primary THEN due
    ELSE IF StickyDuration(x.endpoint) = None THEN due
    ELSE LET sticky_duration == StickyDuration(x.endpoint)[1]
             elapsed == Max(0, t - x.timestamp)
         IN IF elapsed <= sticky_duration
            THEN IF due # None
                 THEN Some(Min(due[1], sticky_duration - elapsed))
                 ELSE Some(sticky_duration - elapsed)
            ELSE Some(0)

\* Variant: the wakeup is set to the time already spent plus the cushion.
WakeupStepAfterElapsed(x, t, due) ==
    IF x.primary THEN due
    ELSE IF StickyDuration(x.endpoint) = None THEN due
    ELSE LET sticky_duration == StickyDuration(x.endpoint)[1]
             elapsed == Max(0, t - x.timestamp)
         IN IF elapsed <= sticky_duration
            THEN IF due # None
                 THEN Some(Min(due[1], elapsed + WakeupCushion))
                 ELSE Some(elapsed + WakeupCushion)
            ELSE Some(0)

\* One step of the loop over last_active_endpoints that computes
\* due_to_sticky_expiring_wakeup_in (a duration from now on).
WakeupStep(x, t, due) ==
    IF x.primary THEN due
    ELSE IF StickyDuration(x.endpoint) = None THEN due
    ELSE LET sticky_duration == StickyDuration(x.endpoint)[1]
             elapsed == Max(0, t - x.timestamp)
         IN IF elapsed <= sticky_duration
            THEN IF due # None
                 THEN Some(Min(due[1], sticky_duration - elapsed + WakeupCushion))
                 ELSE Some(sticky_duration - elapsed + WakeupCushion)
            ELSE Some(0)

RECURSIVE DueToStickyExpiringWakeupIn(_, _, _)
DueToStickyExpiringWakeupIn(active, t, due) ==
    IF active = {} THEN due
    ELSE LET x == CHOOSE y \in active : TRUE
         IN DueToStickyExpiringWakeupIn(active \ {x}, t, WakeupStep(x, t, due))

\* The deadline of tokio::time::sleep(due.unwrap_or(Duration::MAX)): None never fires.
WakeupAt(active, t) ==
    LET due == DueToStickyExpiringWakeupIn(active, t, None)
    IN IF due = None THEN None ELSE Some(t + due[1])

\* Variant: the healthy filter is missing.
AllEndpointsVec == iteration_order

\* self.endpoints.iter().filter(healthy).collect(), in iteration order
HealthyVec == SelectSeq(iteration_order, LAMBDA e : healthy[e])

\* Variant: a later endpoint of strictly higher weight replaces the found one.
RECURSIVE FoundEndpointHighestWeight(_, _, _)
FoundEndpointHighestWeight(vec, t, found) ==
    IF vec = <<>> THEN found
    ELSE LET e == Head(vec)
         IN FoundEndpointHighestWeight(Tail(vec), t,
                IF found # None
                THEN IF Weight(e) > Weight(found[1].endpoint)
                     THEN Some(Entry(e, t, TRUE))
                     ELSE found
                ELSE Some(Entry(e, t, TRUE)))

\* The loop over healthy_endpoints: the first endpoint, replaced by every later
\* one of strictly lower weight.
RECURSIVE FoundEndpoint(_, _, _)
FoundEndpoint(vec, t, found) ==
    IF vec = <<>> THEN found
    ELSE LET e == Head(vec)
         IN FoundEndpoint(Tail(vec), t,
                IF found # None
                THEN IF Weight(e) < Weight(found[1].endpoint)
                     THEN Some(Entry(e, t, TRUE))
                     ELSE found
                ELSE Some(Entry(e, t, TRUE)))

\* Variant: the demoted primary keeps its primary flag.
StickyStepKeepsPrimary(x, new_active, healthy_now, t) ==
    IF ~healthy_now[x.endpoint] THEN new_active
    ELSE IF StickyDuration(x.endpoint) = None THEN new_active
    ELSE IF \E y \in new_active : y.endpoint = x.endpoint THEN new_active
    ELSE IF x.primary
         THEN new_active \cup {Entry(x.endpoint, t, x.primary)}
         ELSE IF x.timestamp + StickyDuration(x.endpoint)[1] > t
              THEN new_active \cup {Entry(x.endpoint, x.timestamp, FALSE)}
              ELSE new_active

\* Variant: only a non-primary entry is asked for its sticky_duration.
StickyStepDemotesWithoutSticky(x, new_active, healthy_now, t) ==
    IF ~healthy_now[x.endpoint] THEN new_active
    ELSE IF \E y \in new_active : y.endpoint = x.endpoint THEN new_active
    ELSE IF x.primary
         THEN new_active \cup {Entry(x.endpoint, t, FALSE)}
         ELSE IF StickyDuration(x.endpoint) = None THEN new_active
         ELSE IF x.timestamp + StickyDuration(x.endpoint)[1] > t
              THEN new_active \cup {Entry(x.endpoint, x.timestamp, FALSE)}
              ELSE new_active

\* Variant: the demoted primary keeps the time of its selection.
StickyStepKeepsTimestamp(x, new_active, healthy_now, t) ==
    IF ~healthy_now[x.endpoint] THEN new_active
    ELSE IF StickyDuration(x.endpoint) = None THEN new_active
    ELSE IF \E y \in new_active : y.endpoint = x.endpoint THEN new_active
    ELSE IF x.primary
         THEN new_active \cup {Entry(x.endpoint, x.timestamp, FALSE)}
         ELSE IF x.timestamp + StickyDuration(x.endpoint)[1] > t
              THEN new_active \cup {Entry(x.endpoint, x.timestamp, FALSE)}
              ELSE new_active

\* One step of the loop over last_active_endpoints that keeps sticky entries.
StickyStep(x, new_active, healthy_now, t) ==
    IF ~healthy_now[x.endpoint] THEN new_active
    ELSE IF StickyDuration(x.endpoint) = None THEN new_active
    ELSE IF \E y \in new_active : y.endpoint = x.endpoint THEN new_active
    ELSE IF x.primary
         THEN new_active \cup {Entry(x.endpoint, t, FALSE)}
         ELSE IF x.timestamp + StickyDuration(x.endpoint)[1] > t
              THEN new_active \cup {Entry(x.endpoint, x.timestamp, FALSE)}
              ELSE new_active

RECURSIVE StickyEndpoints(_, _, _, _)
StickyEndpoints(last_active, new_active, healthy_now, t) ==
    IF last_active = {} THEN new_active
    ELSE LET x == CHOOSE y \in last_active : TRUE
         IN StickyEndpoints(last_active \ {x}, StickyStep(x, new_active, healthy_now, t),
                            healthy_now, t)

\* last_active_endpoints.iter().find(|(_, _, p)| *p): Option of the entry
LastPrioritizedEndpoint(last_active) ==
    IF \E x \in last_active : x.primary
    THEN Some(CHOOSE x \in last_active : x.primary)
    ELSE None

\* Variant: the primaries are compared as entries, time of selection included.
PrimaryChangedByEntry(last_prioritized, new_prioritized) ==
    \/ last_prioritized = None
    \/ last_prioritized[1] # new_prioritized

\* the condition under which the cycle calls telegram.queue_and_send
PrimaryChanged(last_prioritized, new_prioritized) ==
    \/ last_prioritized = None
    \/ last_prioritized[1].endpoint # new_prioritized.endpoint

\* Variant: every DNS change is ignored.
IgnoreEveryDnsChange(change_event, last_active) ==
    change_event.reason = "EndpointDnsValuesChanged"

\* A DNS change of an endpoint that is not selected is ignored.
IgnoreDnsChange(change_event, last_active) ==
    /\ change_event.reason = "EndpointDnsValuesChanged"
    /\ ~\E x \in last_active : x.endpoint = change_event.endpoint

\* Variant: the loop has no break.
RetryLoopRunsWithoutBreak(n, is_ok) == n < RetryAttempts

\* Variant: update() is called once per cycle.
RetryLoopRunsOnce(n, is_ok) == n < 1 /\ ~is_ok

\* for _ in 0..3 { ...; if result.is_ok() { ok = true; break; } }
RetryLoopRuns(n, is_ok) == n < RetryAttempts /\ ~is_ok

\* ------------------------------------------------------------- reconciler
\* CloudflareDnsValues; both fields are kept in both variants so that two
\* values of different variants can be compared.
CName(record) == [type |-> "CName", cname |-> record, ips |-> {}]
CNameWithSticky(ips) == [type |-> "CNameWithSticky", cname |-> "", ips |-> ips]

SameType(a, b) == a.type = b.type

DnsValuesEq(a, b) ==
    IF ~SameType(a, b) THEN FALSE
    ELSE IF a.type = "CName" THEN a.cname = b.cname
    ELSE a.ips = b.ips

\* What a successful endpoint.resolve_dns() may return: the address sets of
\* the endpoint's record the environment chooses from.
ResolveDns(e) == {{<<e, "a">>}}

\* The states inner_update may compute for the selected endpoints when every
\* resolution succeeds: one CNAME to the endpoint's dns.record (the record is
\* named like the endpoint), or the union of the resolved addresses.
NewStates(selected_endpoints) ==
    IF Cardinality(selected_endpoints) = 1
    THEN {CName(CHOOSE e \in selected_endpoints : TRUE)}
    ELSE LET all == UNION {ResolveDns(e) : e \in selected_endpoints}
             resolutions == {r \in [selected_endpoints -> all] :
                               \A e \in selected_endpoints : r[e] \in ResolveDns(e)}
         IN {CNameWithSticky(UNION {resolved[e] : e \in selected_endpoints}) :
                resolved \in resolutions}

\* inner_update: the results it may return, each with the cache it leaves.
\* With several endpoints a resolution may fail (DnsError).  A state equal to
\* the cached one returns Ok without a provider call; otherwise the provider
\* calls either all succeed (cache := Some(state)) or one of them fails.
InnerUpdate(cache, selected_endpoints) ==
    (IF Cardinality(selected_endpoints) = 1 THEN {}
     ELSE {[is_ok |-> FALSE, cache |-> cache]})
    \cup UNION {
        IF cache # None /\ DnsValuesEq(cache[1], state)
        THEN {[is_ok |-> TRUE, cache |-> cache]}
        ELSE {[is_ok |-> TRUE, cache |-> Some(state)], [is_ok |-> FALSE, cache |-> cache]}
        : state \in NewStates(selected_endpoints)}

\* update: inner_update, and on an error the cache is reset.
Update(cache, selected_endpoints) ==
    {IF r.is_ok THEN r ELSE [is_ok |-> FALSE, cache |-> None] :
        r \in InnerUpdate(cache, selected_endpoints)}

\* ---------------------------------------------------------------- actions
\* `continue`, or the end of the loop body: the locals go out of scope and the
\* loop starts over by computing the sticky wakeup from last_active_endpoints
\* (here: active).  attempts and queue_and_send are kept as the record of the
\* iteration that ended.
Continue(how, active) ==
    /\ pc' = "select"
    /\ outcome' = how
    /\ trigger' = "none"
    /\ wakeup_at' = WakeupAt(active, now)
    /\ slept' = 0
    /\ healthy_endpoints' = {}
    /\ new_prioritized_endpoint' = None
    /\ new_active_endpoints' = {}

\* Lines 212-244: read the healthy endpoints, choose the primary.
SelectPrimary(reason) ==
    LET found == FoundEndpoint(HealthyVec, now, None)
    IN IF found = None
       THEN /\ Continue("no_healthy", last_active_endpoints)
            /\ UNCHANGED <<last_active_endpoints, status_cache, gauge_endpoint_selected>>
       ELSE /\ pc' = "carry"
            /\ outcome' = "running"
            /\ trigger' = reason
            /\ wakeup_at' = None
            /\ slept' = 0
            /\ healthy_endpoints' = {HealthyVec[i] : i \in 1..Len(HealthyVec)}
            /\ new_prioritized_endpoint' = found
            /\ new_active_endpoints' = {found[1]}
            /\ UNCHANGED <<last_active_endpoints, status_cache, gauge_endpoint_selected>>

\* select!: change_rx.recv() returned an event
RecvChangeEvent ==
    /\ pc = "select"
    /\ change_rx # <<>>
    /\ LET change_event == Head(change_rx)
       IN /\ change_rx' = Tail(change_rx)
          /\ attempts' = 0
          /\ queue_and_send' = None
          /\ IF IgnoreDnsChange(change_event, last_active_endpoints)
             THEN /\ Continue("ignored", last_active_endpoints)
                  /\ UNCHANGED <<last_active_endpoints, status_cache, gauge_endpoint_selected>>
             ELSE SelectPrimary(change_event.reason)
    /\ UNCHANGED <<config, notifier, resolver, reconciler, prober, healthy, monitor, now>>

\* select!: the sticky sleep is over
StickyExpired ==
    /\ pc = "select"
    /\ wakeup_at # None
    /\ now >= wakeup_at[1]
    /\ attempts' = 0
    /\ queue_and_send' = None
    /\ SelectPrimary("sticky")
    /\ UNCHANGED <<config, notifier, resolver, reconciler, prober, healthy, monitor, change_rx, now>>

\* Variant: the join is logged and the loop goes on.
JoinNextContinues ==
    /\ pc = "select"
    /\ \E e \in Names : monitor[e] = "terminated"
    /\ monitor' = [e \in Names |-> IF monitor[e] = "terminated" THEN "joined" ELSE monitor[e]]
    /\ UNCHANGED <<config, notifier, resolver, reconciler, prober, healthy, change_rx, now, locals, selector>>

\* select!: endpoint_tasks.join_next() returned; break, then abort_all()
JoinNext ==
    /\ pc = "select"
    /\ \E e \in Names : monitor[e] = "terminated"
    /\ pc' = "stopped"
    /\ monitor' = [e \in Names |-> IF monitor[e] = "terminated" THEN "terminated" ELSE "aborted"]
    /\ UNCHANGED <<config, notifier, resolver, reconciler, prober, healthy, change_rx, now, locals>>
    /\ UNCHANGED <<last_active_endpoints, status_cache, gauge_endpoint_selected, wakeup_at, slept,
                   trigger, outcome, queue_and_send>>

\* Lines 246-279: the healthy flags are read again, entry by entry.
CarrySticky ==
    /\ pc = "carry"
    /\ new_active_endpoints' =
          StickyEndpoints(last_active_endpoints, new_active_endpoints, healthy, now)
    /\ pc' = "update"
    /\ healthy_endpoints' = {}
    /\ UNCHANGED <<config, notifier, resolver, reconciler, prober, healthy, monitor, change_rx, now>>
    /\ UNCHANGED <<new_prioritized_endpoint, attempts>>
    /\ UNCHANGED <<last_active_endpoints, status_cache, gauge_endpoint_selected, wakeup_at, slept,
                   trigger, outcome, queue_and_send>>

\* if !ok { continue }: the cycle ends without touching last_active_endpoints
SkipUpdate ==
    /\ Continue("update_failed", last_active_endpoints)
    /\ UNCHANGED <<last_active_endpoints, gauge_endpoint_selected, queue_and_send>>

\* sorted_endpoints: HashMap<u8, &EndpointArc>, filled in the iteration order
\* of self.endpoints; an insert under a weight already present replaces the
\* endpoint stored there.
SortedEndpoints ==
    [w \in {Weight(e) : e \in Names} |->
        LET last == CHOOSE i \in 1..Len(iteration_order) :
                       /\ Weight(iteration_order[i]) = w
                       /\ \A j \in 1..Len(iteration_order) :
                             Weight(iteration_order[j]) = w => j <= i
        IN iteration_order[last]]

\* sorted_by_key: the keys in ascending order
RECURSIVE SortedByKey(_)
SortedByKey(keys) ==
    IF keys = {} THEN <<>>
    ELSE LET k == CHOOSE x \in keys : \A y \in keys : x <= y
         IN <<k>> \o SortedByKey(keys \ {k})

\* to_telegram_string: the health mark and the name (the monitoring details
\* in brackets are left out)
ToTelegramString(e) == [endpoint |-> e, healthy |-> healthy[e]]

\* The message of line 322-335: the new primary, then one line per entry of
\* sorted_endpoints.
Message(primary) ==
    LET keys == SortedByKey(DOMAIN SortedEndpoints)
    IN [primary |-> primary,
        lines |-> [i \in 1..Len(keys) |-> ToTelegramString(SortedEndpoints[keys[i]])]]

\* Lines 316-349: the notification, the gauges, last_active_endpoints
Install ==
    /\ queue_and_send' =
          IF /\ telegram
             /\ PrimaryChanged(LastPrioritizedEndpoint(last_active_endpoints),
                               new_prioritized_endpoint[1])
          THEN Some(new_prioritized_endpoint[1].endpoint)
          ELSE None
    /\ gauge_endpoint_selected' =
          [e \in Names |-> IF \E x \in new_active_endpoints : x.endpoint = e THEN 1 ELSE 0]
    /\ last_active_endpoints' = new_active_endpoints
    /\ Continue("installed", new_active_endpoints)

\* What follows one call of update in the retry loop: the loop runs again, or
\* it is left with ok (Install) or without (SkipUpdate).
AfterUpdate(n, is_ok) ==
    IF RetryLoopRuns(n, is_ok)
    THEN /\ UNCHANGED <<last_active_endpoints, gauge_endpoint_selected, pc, wakeup_at,
                        slept, trigger, outcome, queue_and_send>>
         /\ UNCHANGED <<healthy_endpoints, new_prioritized_endpoint, new_active_endpoints>>
    ELSE IF is_ok THEN Install ELSE SkipUpdate

\* One pass of the retry loop: one call of cloudflare.update, which ends in
\* one of `results`, up to the next call or to the end of the loop body.
CallUpdate(results) ==
    /\ pc = "update"
    /\ RetryLoopRuns(attempts, FALSE)
    /\ \E r \in results :
          /\ status_cache' = r.cache
          /\ attempts' = attempts + 1
          /\ AfterUpdate(attempts + 1, r.is_ok)
    /\ UNCHANGED <<config, notifier, resolver, reconciler, prober, healthy, monitor, change_rx, now>>

\* The retry loop against a provider (and resolver) that always succeeds.
CloudflareUpdateOk ==
    CallUpdate({r \in Update(status_cache, ActiveNames(new_active_endpoints)) : r.is_ok})

CloudflareUpdate ==
    CallUpdate(Update(status_cache, ActiveNames(new_active_endpoints)))

\* ---------------------------------------------------- record-level update
\* A record of the managed name at the provider; it is its own id.
Record(type, content) == [type |-> type, content |-> content]
AddressRecord(ip) == Record("A", ip)
ExternalRecord == Record("TXT", "external")

\* dns.ttl of the endpoints (u16, seconds), from the configuration
DnsTtls == [e \in {"E1", "E2", "E3"} |-> CASE e = "E1" -> 300 [] e = "E2" -> 60 [] e = "E3" -> 120]
DnsTtl(e) == DnsTtls[e]

\* The ttl the cycle passes to update(): the minimum of dns.ttl over
\* new_active_endpoints.
UpdateTtl(new_active) ==
    LET ttls == {DnsTtl(x.endpoint) : x \in new_active}
    IN CHOOSE t \in ttls : \A u \in ttls : t <= u

\* the ttl of the records rs is forgotten (delete) / is set to ttl (create, patch)
WithoutTtl(rt, rs) == {p \in rt : p[1] \notin rs}
WithTtl(rt, rs, ttl) == WithoutTtl(rt, rs) \cup {<<r, ttl>> : r \in rs}

\* create_record_cname for a CName state, create_record_a_or_aaaa per address
RecordsOf(state) ==
    IF state.type = "CName"
    THEN {Record("CNAME", state.cname)}
    ELSE {AddressRecord(ip) : ip \in state.ips}

\* What endpoint.resolve_dns() may return when it succeeds: the endpoint's
\* address, or no address at all.
ResolveDnsAnswers(e) == {{<<e, "a">>}, {}}

DnsError == [type |-> "DnsError", cname |-> "", ips |-> {}]

\* inner_update, `state`: one CNAME to the only endpoint's record, or the
\* union of the addresses the endpoints resolve to, or the DnsError of the
\* first resolution that fails.
StateOrDnsError(selected_endpoints) ==
    IF Cardinality(selected_endpoints) = 1
    THEN {CName(CHOOSE e \in selected_endpoints : TRUE)}
    ELSE LET all == UNION {ResolveDnsAnswers(e) : e \in selected_endpoints}
             resolutions == {r \in [selected_endpoints -> all] :
                               \A e \in selected_endpoints : r[e] \in ResolveDnsAnswers(e)}
         IN {DnsError} \cup
            {CNameWithSticky(UNION {resolved[e] : e \in selected_endpoints}) :
                resolved \in resolutions}

\* Variant: the cached state is not compared with the new one.
PathOfIgnoresEqual(cache, state) ==
    IF cache # None
    THEN IF SameType(cache[1], state) /\ state.type = "CName" THEN "just_update"
         ELSE "full_cleanup"
    ELSE "full_cleanup"

\* Variant: every change within one variant is an update in place.
PathOfJustUpdatesSameType(cache, state) ==
    IF cache # None
    THEN IF DnsValuesEq(cache[1], state) THEN "no_change"
         ELSE IF SameType(cache[1], state) THEN "just_update"
         ELSE "full_cleanup"
    ELSE "full_cleanup"

\* inner_update, "did the state change?"
PathOf(cache, state) ==
    IF cache # None
    THEN IF DnsValuesEq(cache[1], state) THEN "no_change"
         ELSE IF SameType(cache[1], state) /\ state.type = "CName" THEN "just_update"
         ELSE "full_cleanup"
    ELSE "full_cleanup"

\* A provider request either succeeds, or fails before the provider acted, or
\* fails after it (the response is lost, or is not the expected JSON).
ApiOutcomes == {"ok", "failed", "lost"}

\* Variant: update() does not reset the cache on an error.
ReturnKeepsCache(res, cache, had_conflict) ==
    /\ upc' = "idle"
    /\ result' = res
    /\ conflict' = (had_conflict \/ res = "Conflict")
    /\ record_ids' = {}
    /\ to_create' = {}
    /\ status_cache' = cache
    /\ attempts' = attempts + 1
    /\ AfterUpdate(attempts + 1, res = "Ok")

\* Variant: update() resets the cache whatever it returns.
ReturnResetsCache(res, cache, had_conflict) ==
    /\ upc' = "idle"
    /\ result' = res
    /\ conflict' = (had_conflict \/ res = "Conflict")
    /\ record_ids' = {}
    /\ to_create' = {}
    /\ status_cache' = None
    /\ attempts' = attempts + 1
    /\ AfterUpdate(attempts + 1, res = "Ok")

\* update() returns res, inner_update having left `cache` behind; the retry
\* loop of the selector goes on from there.
Return(res, cache, had_conflict) ==
    /\ upc' = "idle"
    /\ result' = res
    /\ conflict' = (had_conflict \/ res = "Conflict")
    /\ record_ids' = {}
    /\ to_create' = {}
    /\ status_cache' = IF res = "Ok" THEN cache ELSE None
    /\ attempts' = attempts + 1
    /\ AfterUpdate(attempts + 1, res = "Ok")

\* Variant: the new records are created before the old ones are deleted.
ProceedCreatesFirst(ids, creates) ==
    IF creates # {}
    THEN /\ upc' = "create"
         /\ record_ids' = ids
         /\ to_create' = creates
         /\ UNCHANGED <<result, conflict, selector, locals>>
    ELSE IF ids # {}
    THEN /\ upc' = "delete"
         /\ record_ids' = ids
         /\ to_create' = creates
         /\ UNCHANGED <<result, conflict, selector, locals>>
    ELSE Return("Ok", desired, conflict)

\* inner_update goes on with what is left to do: delete the enumerated
\* records, then create the new ones, then store the state in the cache.
Proceed(ids, creates) ==
    IF ids # {}
    THEN /\ upc' = "delete"
         /\ record_ids' = ids
         /\ to_create' = creates
         /\ UNCHANGED <<result, conflict, selector, locals>>
    ELSE IF creates # {}
    THEN /\ upc' = "create"
         /\ record_ids' = ids
         /\ to_create' = creates
         /\ UNCHANGED <<result, conflict, selector, locals>>
    ELSE Return("Ok", desired, conflict)

\* update() is called: the state is computed and compared with the cache.
UpdateCall ==
    /\ pc = "update"
    /\ upc = "idle"
    /\ RetryLoopRuns(attempts, FALSE)
    /\ before' = records
    /\ api_calls' = <<>>
    /\ \E state \in StateOrDnsError(ActiveNames(new_active_endpoints)) :
          LET had_conflict == attempts > 0 /\ conflict
          IN IF state = DnsError
             THEN /\ desired' = None
                  /\ path' = "none"
                  /\ Return("DnsError", status_cache, had_conflict)
             ELSE /\ desired' = Some(state)
                  /\ path' = PathOf(status_cache, state)
                  /\ IF PathOf(status_cache, state) = "no_change"
                     THEN Return("Ok", status_cache, had_conflict)
                     ELSE /\ upc' = "enumerate"
                          /\ result' = "running"
                          /\ conflict' = had_conflict
                          /\ UNCHANGED <<record_ids, to_create, selector, locals>>
    /\ UNCHANGED <<records, record_ttl, tampered>>
    /\ UNCHANGED <<config, notifier, resolver, prober, healthy, monitor, change_rx, now>>

\* Variant: the just_update path does not count the records.
ApiEnumerateWithoutCountCheck ==
    /\ upc = "enumerate"
    /\ api_calls' = Append(api_calls, "GET")
    /\ \/ Return("ApiError", status_cache, conflict)
       \/ IF path = "just_update"
          THEN /\ upc' = "patch"
               /\ record_ids' = records
               /\ UNCHANGED <<to_create, result, conflict, selector, locals>>
          ELSE Proceed(records, RecordsOf(desired[1]))
    /\ UNCHANGED <<records, record_ttl, tampered, desired, path, before>>
    /\ UNCHANGED <<config, notifier, resolver, prober, healthy, monitor, change_rx, now>>

\* name_to_record_ids (GET), and on the just_update path the count check
ApiEnumerate ==
    /\ upc = "enumerate"
    /\ api_calls' = Append(api_calls, "GET")
    /\ \/ Return("ApiError", status_cache, conflict)
       \/ IF path = "just_update"
          THEN IF Cardinality(records) # 1
               THEN Return("Conflict", status_cache, conflict)
               ELSE /\ upc' = "patch"
                    /\ record_ids' = records
                    /\ UNCHANGED <<to_create, result, conflict, selector, locals>>
          ELSE Proceed(records, RecordsOf(desired[1]))
    /\ UNCHANGED <<records, record_ttl, tampered, desired, path, before>>
    /\ UNCHANGED <<config, notifier, resolver, prober, healthy, monitor, change_rx, now>>

\* delete_record (DELETE) of the next enumerated record
ApiDelete ==
    /\ upc = "delete"
    /\ api_calls' = Append(api_calls, "DELETE")
    /\ \E r \in record_ids, o \in ApiOutcomes :
          /\ records' = IF o = "failed" THEN records ELSE records \ {r}
          /\ record_ttl' = IF o = "failed" THEN record_ttl ELSE WithoutTtl(record_ttl, {r})
          /\ IF o = "ok"
             THEN Proceed(record_ids \ {r}, to_create)
             ELSE Return("ApiError", status_cache, conflict)
    /\ UNCHANGED <<tampered, desired, path, before>>
    /\ UNCHANGED <<config, notifier, resolver, prober, healthy, monitor, change_rx, now>>

\* create_record (POST) of the next record
ApiCreate ==
    /\ upc = "create"
    /\ api_calls' = Append(api_calls, "POST")
    /\ \E r \in to_create, o \in ApiOutcomes :
          /\ records' = IF o = "failed" THEN records ELSE records \cup {r}
          /\ record_ttl' = IF o = "failed" THEN record_ttl
                           ELSE WithTtl(record_ttl, {r}, UpdateTtl(new_active_endpoints))
          /\ IF o = "ok"
             THEN Proceed({}, to_create \ {r})
             ELSE Return("ApiError", status_cache, conflict)
    /\ UNCHANGED <<tampered, desired, path, before>>
    /\ UNCHANGED <<config, notifier, resolver, prober, healthy, monitor, change_rx, now>>

\* update_record_cname (PATCH) of the one enumerated record
ApiPatch ==
    /\ upc = "patch"
    /\ api_calls' = Append(api_calls, "PATCH")
    /\ \E o \in ApiOutcomes :
          /\ records' = IF o = "failed" THEN records
                        ELSE (records \ record_ids) \cup RecordsOf(desired[1])
          /\ record_ttl' = IF o = "failed" THEN record_ttl
                           ELSE WithTtl(WithoutTtl(record_ttl, record_ids),
                                        RecordsOf(desired[1]), UpdateTtl(new_active_endpoints))
          /\ IF o = "ok"
             THEN Return("Ok", desired, conflict)
             ELSE Return("ApiError", status_cache, conflict)
    /\ UNCHANGED <<tampered, desired, path, before>>
    /\ UNCHANGED <<config, notifier, resolver, prober, healthy, monitor, change_rx, now>>

\* Somebody else adds a record to the managed name while no call is running.
ExternalAdd ==
    /\ upc = "idle"
    /\ ExternalRecord \notin records
    /\ records' = records \cup {ExternalRecord}
    /\ record_ttl' = WithTtl(record_ttl, {ExternalRecord}, 1)
    /\ tampered' = TRUE
    /\ UNCHANGED <<upc, desired, path, record_ids, to_create, api_calls, before, result, conflict>>
    /\ UNCHANGED <<config, notifier, resolver, prober, healthy, monitor, change_rx, now, selector, locals>>

\* ------------------------------------------------------- the probing loop
MonitoredEndpoint == "E1"

\* u8::MAX, the width of confidence and the largest accepted threshold
MaxConfidence == 255

\* confidence += 1 on a u8: beyond u8::MAX the debug build panics and the
\* release build wraps around; None stands for the panic.
IncrementU8(c) ==
    IF c + 1 > MaxConfidence
    THEN {None, Some((c + 1) % (MaxConfidence + 1))}
    ELSE {Some(c + 1)}

\* Variant: a failure takes one success back instead of all of them.
DecrementConfidence(c) == Max(c - 1, 0)

\* confidence = 0 after a failed probe, a missing marker, an empty DNS answer
ResetConfidence(c) == 0

\* Variant: one successful probe is enough.
HealthyAtFirstSuccess(c, required) == c >= 1

\* if confidence >= monitoring.confidence
HealthyAt(c, required) == c >= required

\* Variant: the event is sent whether or not the flag changes.
CallChangeHealthAlwaysSends(e, h) ==
    /\ Len(change_rx) < MaxQueue
    /\ healthy' = [healthy EXCEPT ![e] = h]
    /\ change_rx' = Append(change_rx, EndpointHealthChanged(e))

\* change_health(self_arc, Some(change_tx), h)
CallChangeHealth(e, h) ==
    IF healthy[e] = h
    THEN UNCHANGED <<healthy, change_rx>>
    ELSE ChangeHealth(e, h)

\* Endpoint::monitor of a monitored endpoint up to its loop:
\* change_health(.., None, false) stores false and sends nothing; the task
\* returns when the initial resolve_dns fails.
ProbeStart ==
    /\ pc # "stopped"
    /\ monitor[MonitoredEndpoint] = "spawned"
    /\ healthy' = [healthy EXCEPT ![MonitoredEndpoint] = FALSE]
    /\ \/ /\ monitor' = [monitor EXCEPT ![MonitoredEndpoint] = "terminated"]
          /\ m_pc' = "returned"
          /\ UNCHANGED last_dns_values
       \/ \E v \in ResolveDnsAnswers(MonitoredEndpoint) :
             /\ monitor' = [monitor EXCEPT ![MonitoredEndpoint] = "running"]
             /\ m_pc' = "head"
             /\ last_dns_values' = v
    /\ confidence' = 0
    /\ first_run' = TRUE
    /\ UNCHANGED <<threshold, last_problem, streak>>
    /\ UNCHANGED <<config, notifier, resolver, reconciler, change_rx, now, selector, locals>>

\* The head of the loop: the confidence is applied to the health status.
ProbeHead ==
    /\ pc # "stopped"
    /\ m_pc = "head"
    /\ IF HealthyAt(confidence, threshold)
       THEN /\ CallChangeHealth(MonitoredEndpoint, TRUE)
            /\ confidence' = threshold
       ELSE /\ CallChangeHealth(MonitoredEndpoint, FALSE)
            /\ UNCHANGED confidence
    /\ m_pc' = IF first_run THEN "resolve" ELSE "sleep"
    /\ first_run' = FALSE
    /\ UNCHANGED <<threshold, last_dns_values, last_problem, streak>>
    /\ UNCHANGED <<config, notifier, resolver, reconciler, monitor, now, selector, locals>>

\* tokio::time::sleep(monitoring.interval) is over
ProbeSleep ==
    /\ pc # "stopped"
    /\ m_pc = "sleep"
    /\ m_pc' = "resolve"
    /\ UNCHANGED <<threshold, confidence, first_run, last_dns_values, last_problem, streak>>
    /\ UNCHANGED <<config, notifier, resolver, reconciler, healthy, monitor, change_rx, now, selector, locals>>

\* The periodic resolve_dns: an error continues the loop; a changed set is
\* announced and remembered; an empty set resets the confidence.
ProbeResolve ==
    /\ pc # "stopped"
    /\ m_pc = "resolve"
    /\ \/ /\ m_pc' = "head"
          /\ UNCHANGED <<confidence, last_dns_values, last_problem, streak, change_rx>>
       \/ \E v \in ResolveDnsAnswers(MonitoredEndpoint) :
             /\ IF v # last_dns_values
                THEN /\ Len(change_rx) < MaxQueue
                     /\ change_rx' = Append(change_rx, EndpointDnsValuesChanged(MonitoredEndpoint))
                ELSE UNCHANGED change_rx
             /\ last_dns_values' = v
             /\ IF v = {}
                THEN /\ last_problem' = Some("no DNS values")
                     /\ confidence' = ResetConfidence(confidence)
                     /\ streak' = 0
                     /\ m_pc' = "head"
                ELSE /\ m_pc' = "probe"
                     /\ UNCHANGED <<confidence, last_problem, streak>>
    /\ UNCHANGED <<threshold, first_run>>
    /\ UNCHANGED <<config, notifier, resolver, reconciler, healthy, monitor, now, selector, locals>>

\* The HTTP probe: an error or a missing marker resets the confidence, a good
\* response increments it.
ProbeRequest ==
    /\ pc # "stopped"
    /\ m_pc = "probe"
    /\ \/ /\ last_problem' = Some("HTTP error")
          /\ confidence' = ResetConfidence(confidence)
          /\ streak' = 0
          /\ m_pc' = "head"
          /\ UNCHANGED monitor
       \/ /\ confidence' = ResetConfidence(confidence)
          /\ streak' = 0
          /\ m_pc' = "head"
          /\ UNCHANGED <<last_problem, monitor>>
       \/ \E c \in IncrementU8(confidence) :
             /\ streak' = Min(streak + 1, threshold + 1)
             /\ IF c = None
                THEN /\ m_pc' = "panicked"
                     /\ monitor' = [monitor EXCEPT ![MonitoredEndpoint] = "terminated"]
                     /\ UNCHANGED confidence
                ELSE /\ m_pc' = "head"
                     /\ confidence' = c[1]
                     /\ UNCHANGED monitor
             /\ UNCHANGED last_problem
    /\ UNCHANGED <<threshold, first_run, last_dns_values>>
    /\ UNCHANGED <<config, notifier, resolver, reconciler, healthy, change_rx, now, selector, locals>>

\* ------------------------------------------------- the notification queue
\* queue.len() > 128 panics
QueueLimit == 128

\* elapsed > 10 marks a message as delayed
DelayedAfter == 10

\* the telegram arm of select! sleeps 30 seconds while messages are pending
PendingSleep == 30

\* the timeout of the client that sends the messages, in seconds
RequestTimeout == 10

\* the wall clock is read in ticks of half a second
TicksPerSecond == 2

\* ticks the wall clock runs beyond one sleep of the telegram arm
ClockSlack == 2
MaxClock == (PendingSleep * TicksPerSecond) + ClockSlack

\* messages the selector hands over while the clock runs
MaxMessages == 2

\* Variant: Duration::as_secs rounds up.
AsSecsRoundedUp(ticks) == (ticks + TicksPerSecond - 1) \div TicksPerSecond

\* Duration::as_secs: whole seconds, the rest is cut off
AsSecs(ticks) == ticks \div TicksPerSecond

\* (message.to_string(), SystemTime::now())
QueueEntry(message, timestamp) == [text |-> message, created_at |-> timestamp]

\* The text of a POST: the message, and for a delayed one the suffix
\* "This is a delayed message from `<timestamp>`."
Content(message, delayed_from) == [text |-> message, delayed_from |-> delayed_from]

\* send(): prepare the message
Prepare(entry, clock) ==
    IF AsSecs(clock - entry.created_at) > DelayedAfter
    THEN Content(entry.text, Some(entry.created_at))
    ELSE Content(entry.text, None)

\* The messages are numbered in the order of the calls that enqueue them.
LastMessage ==
    IF queue # <<>> THEN queue[Len(queue)].text
    ELSE IF posted # <<>> THEN posted[Len(posted)].text
    ELSE 0
NextMessages(limit) == IF LastMessage < limit THEN {LastMessage + 1} ELSE {}

Silenced == silence_until # None /\ silence_until[1] > wall_clock

\* Variant: the length is not checked.
SendBeginUnchecked(q) ==
    t_pc' = IF q = <<>> THEN "idle" ELSE "sending"

\* send(): return on an empty queue, panic on too long a queue, else drain
SendBegin(q) ==
    t_pc' = IF q = <<>> THEN "idle" ELSE IF Len(q) > QueueLimit THEN "panicked" ELSE "sending"

\* Variant: the newest entry is sent first.
NextToSendNewest(q) == Len(q)

\* queue.front()
NextToSend(q) == 1

\* q without its i-th entry
Without(q, i) == SubSeq(q, 1, i - 1) \o SubSeq(q, i + 1, Len(q))

\* queue_and_send(message): nothing during the initial silence; otherwise
\* push_back and send()
QueueAndSend(message) ==
    /\ t_pc = "idle"
    /\ IF Silenced
       THEN UNCHANGED <<queue, t_pc>>
       ELSE /\ queue' = Append(queue, QueueEntry(message, wall_clock))
            /\ SendBegin(queue')
    /\ UNCHANGED <<silence_until, wall_clock, posted>>
    /\ UNCHANGED <<config, resolver, healthy, monitor, change_rx, now, selector, locals, reconciler, prober>>

\* The telegram arm of select!: has_pending(), 30 seconds of sleep, send()
SendPending ==
    /\ t_pc = "idle"
    /\ queue # <<>>
    /\ wall_clock + (PendingSleep * TicksPerSecond) <= MaxClock
    /\ wall_clock' = wall_clock + (PendingSleep * TicksPerSecond)
    /\ SendBegin(queue)
    /\ UNCHANGED <<queue, silence_until, posted>>
    /\ UNCHANGED <<config, resolver, healthy, monitor, change_rx, now, selector, locals, reconciler, prober>>

\* One pass of the loop of send(): POST the front entry; pop it after a
\* success, return after a failure.
Post ==
    /\ t_pc = "sending"
    /\ LET i == NextToSend(queue)
           content == Prepare(queue[i], wall_clock)
       IN \/ /\ posted' = Append(posted, content)
             /\ queue' = Without(queue, i)
             /\ t_pc' = IF queue' = <<>> THEN "idle" ELSE "sending"
          \/ /\ t_pc' = "idle"
             /\ UNCHANGED <<queue, posted>>
    /\ UNCHANGED <<silence_until, wall_clock>>
    /\ UNCHANGED <<config, resolver, healthy, monitor, change_rx, now, selector, locals, reconciler, prober>>

\* Time passes: the ten seconds of a request that times out, or half a
\* second; the half seconds are followed up to ClockSlack of them after each
\* multiple of ten seconds.
WallClockTick ==
    /\ t_pc # "panicked"
    /\ \E d \in {1, RequestTimeout * TicksPerSecond} :
          /\ wall_clock + d <= MaxClock
          /\ d = 1 => wall_clock % (RequestTimeout * TicksPerSecond) < ClockSlack
          /\ wall_clock' = wall_clock + d
    /\ UNCHANGED <<queue, silence_until, t_pc, posted>>
    /\ UNCHANGED <<config, resolver, healthy, monitor, change_rx, now, selector, locals, reconciler, prober>>

\* ------------------------------------------------- resolving and retrying
\* A resource record of an answer section
Resource(type, data) == [type |-> type, data |-> data]

\* What one query can bring: an error (no socket, timeout, rcode, unreadable
\* message) or the answer section of a NoError message.
QueryError == [error |-> TRUE, answers |-> {}]
Answer(resources) == [error |-> FALSE, answers |-> resources]

\* Result<_, _>
Ok(v) == [is_ok |-> TRUE, value |-> v]
Err(e) == [is_ok |-> FALSE, value |-> e]

\* the addresses of the records of one type in an answer section
Addresses(answer, type) == {r.data : r \in {x \in answer.answers : x.type = type}}

\* _resolve: the A query fills returnme; the AAAA query fills a second
\* returnme declared inside its block, which ends with the block.
ResolveOnce(a, aaaa) ==
    IF a.error THEN Err("A")
    ELSE IF aaaa.error THEN Err("AAAA")
    ELSE LET returnme == Addresses(a, "A")
             inner == Addresses(aaaa, "AAAA")
         IN Ok(returnme)

AnswersA == {QueryError, Answer({}), Answer({Resource("A", "192.0.2.1")}),
             Answer({Resource("CNAME", "alias"), Resource("A", "192.0.2.1"),
                     Resource("A", "192.0.2.2")})}
AnswersAAAA == {QueryError, Answer({}), Answer({Resource("AAAA", "2001:db8::1")})}

\* _perform: the body of a 200 response, or an error
PerformOnce(response) == IF response.error THEN Err("http") ELSE Ok(response.answers)
Responses == {QueryError, Answer({"body"})}

\* attempt += 1 on a u8: beyond u8::MAX the debug build panics (None) and the
\* release build wraps around.
AttemptIncrement(n) ==
    IF n + 1 > MaxConfidence
    THEN {None, Some((n + 1) % (MaxConfidence + 1))}
    ELSE {Some(n + 1)}

\* let last_attempt = attempt > self.retry
LastAttempt(n, retries) == n > retries

\* resolve() / perform() is called
RetryCall ==
    /\ r_pc \in {"idle", "returned"}
    /\ callee' \in {"resolve", "perform"}
    /\ r_pc' = "running"
    /\ attempt' = 0
    /\ made' = 0
    /\ UNCHANGED <<retry, answers, returned>>
    /\ UNCHANGED <<config, notifier, healthy, monitor, change_rx, now, selector, locals,
                   reconciler, prober>>

\* One pass of the retry loop: count, attempt, return on success or on the
\* last attempt.
RetryAttempt ==
    /\ r_pc = "running"
    /\ \E n \in AttemptIncrement(attempt) :
          IF n = None
          THEN /\ r_pc' = "panicked"
               /\ UNCHANGED <<attempt, answers, returned, made>>
          ELSE /\ attempt' = n[1]
               /\ made' = Min(made + 1, retry + 2)
               /\ \E a \in IF callee = "resolve" THEN AnswersA ELSE Responses :
                  \E aaaa \in IF callee = "resolve" THEN AnswersAAAA ELSE {Answer({})} :
                     LET ret == IF callee = "resolve"
                                THEN ResolveOnce(a, aaaa)
                                ELSE PerformOnce(a)
                     IN /\ answers' = <<a, aaaa>>
                        /\ IF ret.is_ok \/ LastAttempt(n[1], retry)
                           THEN r_pc' = "returned" /\ returned' = ret
                           ELSE r_pc' = "running" /\ UNCHANGED returned
    /\ UNCHANGED <<callee, retry>>
    /\ UNCHANGED <<config, notifier, healthy, monitor, change_rx, now, selector, locals,
                   reconciler, prober>>

\* ---------------------------------------------------------- specification
ResolverIdle ==
    /\ callee = "resolve"
    /\ retry = 0
    /\ attempt = 0
    /\ r_pc = "idle"
    /\ answers = <<Answer({}), Answer({})>>
    /\ returned = Ok({})
    /\ made = 0

NotifierIdle ==
    /\ queue = <<>>
    /\ silence_until = None
    /\ wall_clock = 0
    /\ t_pc = "idle"
    /\ posted = <<>>

\* Spec takes update() by its result (Update above) and the monitors by the
\* flips of their flags; the variables of the record-level reconciler and of
\* the probing loop rest in it and are moved by SpecProvider and SpecMonitor.
ReconcilerIdle ==
    /\ records = {}
    /\ record_ttl = {}
    /\ tampered = FALSE
    /\ upc = "idle"
    /\ desired = None
    /\ path = "none"
    /\ record_ids = {}
    /\ to_create = {}
    /\ api_calls = <<>>
    /\ before = {}
    /\ result = "none"
    /\ conflict = FALSE

ProberIdle ==
    /\ threshold = 1
    /\ m_pc = "off"
    /\ confidence = 0
    /\ first_run = TRUE
    /\ last_dns_values = {}
    /\ last_problem = None
    /\ streak = 0

Init ==
    /\ \E ingress \in Configurations :
          /\ endpoints = ingress.endpoints
          /\ iteration_order = ingress.iteration_order
          /\ telegram = ingress.telegram
    /\ healthy = [e \in Names |-> FALSE]
    /\ monitor = [e \in Names |-> "spawned"]
    /\ change_rx = <<>>
    /\ now = 0
    /\ last_active_endpoints = {}
    /\ status_cache = None
    /\ gauge_endpoint_selected = [e \in Names |-> 0]
    /\ pc = "select"
    /\ wakeup_at = None
    /\ slept = 0
    /\ healthy_endpoints = {}
    /\ new_prioritized_endpoint = None
    /\ new_active_endpoints = {}
    /\ attempts = 0
    /\ trigger = "none"
    /\ outcome = "none"
    /\ queue_and_send = None
    /\ ReconcilerIdle
    /\ NotifierIdle
    /\ ResolverIdle
    /\ ProberIdle

Next ==
    \/ Tick
    \/ \E e \in Names : MonitorStart(e)
    \/ \E e \in Names : MonitorHealth(e)
    \/ \E e \in Names : MonitorDnsValuesChanged(e)
    \/ RecvChangeEvent
    \/ StickyExpired
    \/ JoinNext
    \/ CarrySticky
    \/ CloudflareUpdate

Spec == Init /\ [][Next]_vars

\* The cycle the selector has begun runs to its end (every request has a
\* timeout), and select! polls its ready arms in random order, so the
\* join_next arm is not passed over forever. Two monitored endpoints.
InitFair ==
    /\ Init
    /\ iteration_order = <<"E2", "E3">>

SpecFair ==
    /\ InitFair
    /\ [][Next]_vars
    /\ WF_vars(CarrySticky)
    /\ WF_vars(CloudflareUpdate)
    /\ SF_vars(JoinNext)

\* ------------------------------------------------------------- properties
PrimaryEntries(active) == {x \in active : x.primary}
PrimaryNames(active) == {x.endpoint : x \in PrimaryEntries(active)}
HealthyNow == {e \in Names : healthy[e]}

\* the select returned a DNS change of an endpoint outside last_active_endpoints
DiscardedDnsChange ==
    /\ RecvChangeEvent
    /\ Head(change_rx).reason = "EndpointDnsValuesChanged"
    /\ Head(change_rx).endpoint \notin ActiveNames(last_active_endpoints)

\* the select returned and the iteration goes on to the selection
CycleStarts == (RecvChangeEvent \/ StickyExpired) /\ ~DiscardedDnsChange

\* the retry loop ended with a successful update()
UpdateSucceeded == CloudflareUpdate /\ pc' = "select" /\ status_cache' # None

\* ---- C1
C1_Invariant ==
    /\ \/ last_active_endpoints = {}
       \/ Cardinality(PrimaryEntries(last_active_endpoints)) = 1
    /\ pc \in {"carry", "update"} => Cardinality(PrimaryEntries(new_active_endpoints)) = 1

C1_Step ==
    last_active_endpoints' # last_active_endpoints =>
        /\ pc = "update"
        /\ last_active_endpoints' = new_active_endpoints
        /\ Cardinality(PrimaryEntries(last_active_endpoints')) = 1

\* C1: last_active_endpoints is empty or holds exactly one primary entry, and
\* a step either leaves it as it was or replaces it by the new_active_endpoints
\* of the running cycle, which holds exactly one primary entry.
C1_OnePrimary == []C1_Invariant /\ [][C1_Step]_vars

\* an installed set that holds a demoted entry next to the primary
C1_Witness ==
    /\ outcome = "installed"
    /\ Cardinality(last_active_endpoints) >= 2
    /\ Cardinality(PrimaryEntries(last_active_endpoints)) = 1

\* ---- C2
C2_Step ==
    CycleStarts /\ HealthyNow # {} =>
        /\ pc' = "carry"
        /\ new_prioritized_endpoint' # None
        /\ LET p == new_prioritized_endpoint'[1]
           IN /\ p.primary
              /\ healthy[p.endpoint]
              /\ \A e \in HealthyNow : Weight(e) >= Weight(p.endpoint)
              /\ PrimaryEntries(new_active_endpoints') = {p}

\* C2: a cycle that reads at least one endpoint as healthy chooses a primary
\* that it read as healthy, and none of the endpoints it read as healthy has a
\* strictly lower weight.
C2_LowestWeight == [][C2_Step]_vars

\* E1 was chosen although E2, which precedes it in the iteration, was healthy
C2_Witness ==
    /\ pc = "carry"
    /\ iteration_order = <<"E2", "E1", "E3">>
    /\ new_prioritized_endpoint = Some(Entry("E1", now, TRUE))
    /\ "E2" \in healthy_endpoints

\* ---- C3
C3_Step ==
    pc = "carry" /\ pc' = "update" =>
        \A x \in new_active_endpoints' :
            ~x.primary =>
                /\ StickyDuration(x.endpoint) # None
                /\ x.timestamp + StickyDuration(x.endpoint)[1] > now

\* C3: every non-primary entry put into new_active_endpoints satisfies
\* since + sticky_duration > now when it is put there, whatever the accepted
\* sticky_duration (0 included), carried or just demoted.
C3_StickyUnexpired == [][C3_Step]_vars

\* ---- C4
\* C4: an endpoint without sticky_duration is in new_active_endpoints and in
\* last_active_endpoints only as the primary.
C4_NoStickyOnlyPrimary ==
    \A x \in new_active_endpoints \cup last_active_endpoints :
        StickyDuration(x.endpoint) = None => x.primary

\* a healthy previous primary without sticky_duration was left out
C4_Witness ==
    /\ pc = "update"
    /\ \E x \in last_active_endpoints :
          /\ x.primary
          /\ StickyDuration(x.endpoint) = None
          /\ healthy[x.endpoint]
          /\ x.endpoint \notin ActiveNames(new_active_endpoints)

\* ---- C5
C5_Select ==
    pc = "select" /\ pc' = "carry" =>
        /\ new_prioritized_endpoint'[1].timestamp = now
        /\ new_prioritized_endpoint'[1].primary

C5_Carry ==
    pc = "carry" /\ pc' = "update" =>
        /\ new_prioritized_endpoint[1] \in new_active_endpoints'
        /\ \A x, y \in new_active_endpoints' : x.endpoint = y.endpoint => x = y
        /\ \A x \in last_active_endpoints :
              ( /\ healthy[x.endpoint]
                /\ StickyDuration(x.endpoint) # None
                /\ x.endpoint # new_prioritized_endpoint[1].endpoint ) =>
                    IF x.primary
                    THEN Entry(x.endpoint, now, FALSE) \in new_active_endpoints'
                    ELSE IF x.timestamp + StickyDuration(x.endpoint)[1] > now
                         THEN Entry(x.endpoint, x.timestamp, FALSE) \in new_active_endpoints'
                         ELSE x.endpoint \notin ActiveNames(new_active_endpoints')

\* C5: a healthy sticky previous primary that is demoted enters
\* new_active_endpoints as non-primary with since = the time of the cycle; a
\* healthy sticky non-primary entry keeps its since and is kept only while
\* since + sticky_duration > now; the primary's since is the time of its selection.
C5_Since == [][C5_Select /\ C5_Carry]_vars

\* an entry carried with a since older than the cycle that carried it
C5_Witness ==
    /\ outcome = "installed"
    /\ \E p, x \in last_active_endpoints :
          p.primary /\ ~x.primary /\ x.timestamp < p.timestamp

\* ---- C6
\* The documented scenario: E1, E2 and E3 healthy with active = {E1}; only
\* E1's health changes, and the provider always succeeds.
InitScenario ==
    /\ endpoints = EndpointsScenario
    /\ iteration_order = <<"E1", "E2", "E3">>
    /\ telegram = TRUE
    /\ healthy = [e \in Names |-> TRUE]
    /\ monitor = [e \in Names |-> "running"]
    /\ change_rx = <<>>
    /\ now = 0
    /\ last_active_endpoints = {Entry("E1", 0, TRUE)}
    /\ status_cache = Some(CName("E1"))
    /\ gauge_endpoint_selected = [e \in Names |-> IF e = "E1" THEN 1 ELSE 0]
    /\ pc = "select"
    /\ wakeup_at = None
    /\ slept = 0
    /\ healthy_endpoints = {}
    /\ new_prioritized_endpoint = None
    /\ new_active_endpoints = {}
    /\ attempts = 1
    /\ trigger = "none"
    /\ outcome = "installed"
    /\ queue_and_send = Some("E1")
    /\ ReconcilerIdle
    /\ NotifierIdle
    /\ ResolverIdle
    /\ ProberIdle

E1HealthChanges == MonitorHealth("E1")

NextScenario ==
    \/ Tick
    \/ E1HealthChanges
    \/ RecvChangeEvent
    \/ StickyExpired
    \/ CarrySticky
    \/ CloudflareUpdateOk

SpecScenario == InitScenario /\ [][NextScenario]_vars

\* the sticky seconds of E2 in the scenario
ScenarioSticky == StickyDuration("E2")[1]

C6_Select ==
    pc = "select" /\ pc' = "carry" =>
        new_prioritized_endpoint' =
            Some(Entry(IF healthy["E1"] THEN "E1" ELSE "E2", now, TRUE))

C6_Carry ==
    pc = "carry" /\ pc' = "update" =>
        LET p == new_prioritized_endpoint[1]
        IN IF p.endpoint = "E2"
           THEN new_active_endpoints' = {p}
           ELSE IF "E2" \in PrimaryNames(last_active_endpoints)
           THEN new_active_endpoints' = {p, Entry("E2", now, FALSE)}
           ELSE IF \E x \in last_active_endpoints : x.endpoint = "E2"
           THEN LET x == CHOOSE y \in last_active_endpoints : y.endpoint = "E2"
                IN IF now >= x.timestamp + ScenarioSticky
                   THEN new_active_endpoints' = {p}
                   ELSE new_active_endpoints' = {p, x}
           ELSE new_active_endpoints' = {p}

C6_Install ==
    pc = "update" /\ pc' # "update" =>
        /\ pc' = "select"
        /\ attempts' = 1
        /\ last_active_endpoints' = new_active_endpoints

C6_Timer ==
    pc = "select" =>
        IF \E x \in last_active_endpoints : ~x.primary
        THEN LET x == CHOOSE y \in last_active_endpoints : ~y.primary
             IN /\ x.endpoint = "E2"
                /\ wakeup_at # None
                /\ wakeup_at[1] >= x.timestamp + ScenarioSticky + 1
                /\ wakeup_at[1] <= Max(x.timestamp + ScenarioSticky + 1, now)
        ELSE wakeup_at = None

\* C6: in the scenario a cycle that reads E1 as unhealthy installs {E2} with E2
\* primary; the cycle that reads E1 as healthy again installs {E1, E2} with E1
\* primary and E2 since that cycle; the sticky timer is due 31 seconds after
\* E2's since, and a cycle from 30 seconds after it on installs {E1}.
C6_Scenario == []C6_Timer /\ [][C6_Select /\ C6_Carry /\ C6_Install]_vars

\* 31 seconds after E1 returned the timer has fired and the cycle selects {E1}
C6_Witness ==
    /\ pc = "update"
    /\ trigger = "sticky"
    /\ now = 31
    /\ last_active_endpoints = {Entry("E1", 0, TRUE), Entry("E2", 0, FALSE)}
    /\ new_active_endpoints = {Entry("E1", 31, TRUE)}

\* ---- C7
C7_Step ==
    CycleStarts /\ HealthyNow = {} =>
        /\ pc' = "select"
        /\ attempts' = 0
        /\ queue_and_send' = None
        /\ UNCHANGED <<last_active_endpoints, status_cache, gauge_endpoint_selected>>

\* C7: a cycle that reads no endpoint as healthy is skipped: no update() call,
\* no notification, last_active_endpoints (and cache and gauges) as before.
C7_NoHealthySkips == [][C7_Step]_vars

\* a cycle was skipped for want of a healthy endpoint while a set was installed
C7_Witness ==
    /\ outcome = "no_healthy"
    /\ last_active_endpoints # {}
    /\ attempts = 0

\* ---- C8
C8_Step ==
    RecvChangeEvent =>
        IF DiscardedDnsChange
        THEN /\ pc' = "select"
             /\ outcome' = "ignored"
             /\ attempts' = 0
             /\ queue_and_send' = None
             /\ new_prioritized_endpoint' = None
             /\ UNCHANGED <<last_active_endpoints, status_cache, gauge_endpoint_selected>>
        ELSE /\ outcome' \in {"running", "no_healthy"}
             /\ trigger' = IF outcome' = "running" THEN Head(change_rx).reason ELSE "none"
             /\ pc' = IF HealthyNow # {} THEN "carry" ELSE "select"
             /\ HealthyNow # {} => new_prioritized_endpoint' # None

\* C8: a DNS change of an endpoint outside last_active_endpoints is dropped
\* (no selection, no update() call, no notification, nothing changed); a DNS
\* change of an endpoint inside it and every health change start a selection.
C8_DnsChangeDiscard == [][C8_Step]_vars

\* a DNS change was dropped while a set was installed
C8_Witness ==
    /\ outcome = "ignored"
    /\ last_active_endpoints # {}
    /\ \E e \in Names : monitor[e] = "running" /\ e \notin ActiveNames(last_active_endpoints)

\* ---- C9
C9_Invariant ==
    /\ attempts <= 3
    /\ pc = "update" => attempts < 3 /\ (attempts > 0 => status_cache = None)
    /\ outcome = "update_failed" =>
          attempts = 3 /\ status_cache = None /\ queue_and_send = None

C9_Step ==
    CloudflareUpdate =>
        /\ attempts' = attempts + 1
        /\ IF pc' = "update"
           THEN /\ status_cache' = None
                /\ UNCHANGED <<last_active_endpoints, gauge_endpoint_selected>>
           ELSE IF status_cache' # None
           THEN /\ outcome' = "installed"
                /\ last_active_endpoints' = new_active_endpoints
           ELSE /\ outcome' = "update_failed"
                /\ attempts' = 3
                /\ queue_and_send' = None
                /\ UNCHANGED <<last_active_endpoints, gauge_endpoint_selected>>

\* C9: a cycle calls update() at most 3 times and not again after a success;
\* when all 3 calls fail, last_active_endpoints and the gauges stay, nothing is
\* notified, and the cache is absent.
C9_Retry == []C9_Invariant /\ [][C9_Step]_vars

\* three failed calls left an installed set in place
C9_Witness ==
    /\ outcome = "update_failed"
    /\ attempts = 3
    /\ last_active_endpoints # {}
    /\ \E e \in Names : gauge_endpoint_selected[e] = 1

\* ---- C10
C10_Invariant ==
    /\ ~telegram => queue_and_send = None
    /\ pc \in {"carry", "update"} => queue_and_send = None

C10_Step ==
    telegram /\ (CycleStarts \/ DiscardedDnsChange \/ CloudflareUpdate) =>
        IF UpdateSucceeded /\ PrimaryNames(last_active_endpoints) # PrimaryNames(new_active_endpoints)
        THEN queue_and_send' = Some(new_prioritized_endpoint[1].endpoint)
        ELSE queue_and_send' = None

\* C10: with telegram configured queue_and_send is called exactly in a cycle
\* whose update succeeded and whose primary is another endpoint than the
\* primary of last_active_endpoints (none there counts as another); without
\* telegram it is never called.
C10_Notify == []C10_Invariant /\ [][C10_Step]_vars

\* a notified change of the primary that kept the demoted one
C10_Witness ==
    /\ telegram
    /\ outcome = "installed"
    /\ queue_and_send # None
    /\ Cardinality(last_active_endpoints) >= 2
    /\ queue_and_send[1] \in PrimaryNames(last_active_endpoints)

\* ------------------------------------------------- the reconciler in detail
\* E1 without stickiness and E2 sticky, both monitored; the clock rests, so a
\* demoted E2 stays selected while it is healthy.
EndpointsProvider ==
    [e \in {"E1", "E2"} |->
        CASE e = "E1" -> Endpoint(10, None, TRUE)
          [] e = "E2" -> Endpoint(20, Some(1), TRUE)]

\* The selector at its first select with the monitors in their loops; the
\* name holds what an earlier run left there.
InitProvider ==
    /\ endpoints = EndpointsProvider
    /\ iteration_order = <<"E1", "E2">>
    /\ telegram = FALSE
    /\ healthy = [e \in Names |-> FALSE]
    /\ monitor = [e \in Names |-> "running"]
    /\ change_rx = <<>>
    /\ now = 0
    /\ last_active_endpoints = {}
    /\ status_cache = None
    /\ gauge_endpoint_selected = [e \in Names |-> 0]
    /\ pc = "select"
    /\ wakeup_at = None
    /\ slept = 0
    /\ healthy_endpoints = {}
    /\ new_prioritized_endpoint = None
    /\ new_active_endpoints = {}
    /\ attempts = 0
    /\ trigger = "none"
    /\ outcome = "none"
    /\ queue_and_send = None
    /\ records \in {{}, {Record("CNAME", "E2")}}
    /\ record_ttl = {<<r, DnsTtl("E2")>> : r \in records}
    /\ tampered = FALSE
    /\ upc = "idle"
    /\ desired = None
    /\ path = "none"
    /\ record_ids = {}
    /\ to_create = {}
    /\ api_calls = <<>>
    /\ before = {}
    /\ result = "none"
    /\ conflict = FALSE
    /\ ProberIdle
    /\ NotifierIdle
    /\ ResolverIdle

NextProvider ==
    \/ \E e \in Names : MonitorHealth(e)
    \/ RecvChangeEvent
    \/ CarrySticky
    \/ UpdateCall
    \/ ApiEnumerate
    \/ ApiDelete
    \/ ApiCreate
    \/ ApiPatch
    \/ ExternalAdd

SpecProvider == InitProvider /\ [][NextProvider]_vars

\* the number of requests of one method in a log
Count(log, method) == Cardinality({i \in DOMAIN log : log[i] = method})

\* a step in which update() returns
UpdateReturns ==
    /\ UpdateCall \/ ApiEnumerate \/ ApiDelete \/ ApiCreate \/ ApiPatch
    /\ upc' = "idle"

\* a step of a running update() call
ApiStep == ApiEnumerate \/ ApiDelete \/ ApiCreate \/ ApiPatch

\* a step in which update() is called and computes a state
StateComputed == UpdateCall /\ desired' # None

\* ---- C11
C11_Step ==
    StateComputed /\ status_cache = desired' =>
        /\ UpdateReturns
        /\ result' = "Ok"
        /\ api_calls' = <<>>
        /\ records' = records
        /\ status_cache' = status_cache

\* C11: an update() whose desired state equals the cached one makes no
\* provider request, leaves cache and records alone and returns success.
C11_NoChange == [][C11_Step]_vars

\* a cached set of addresses was asked for again
C11_Witness ==
    /\ upc = "idle"
    /\ result = "Ok"
    /\ api_calls = <<>>
    /\ status_cache # None
    /\ status_cache = desired
    /\ status_cache[1].type = "CNameWithSticky"
    /\ records = RecordsOf(status_cache[1])

\* ---- C12
C12_Path ==
    StateComputed =>
        ( path' = "just_update" <=>
            /\ status_cache # None
            /\ status_cache[1].type = "CName"
            /\ desired'[1].type = "CName"
            /\ status_cache[1].cname # desired'[1].cname )

C12_Requests ==
    path = "just_update" /\ upc # "idle" =>
      IF ~ApiStep THEN records' = records ELSE
        /\ api_calls' \in {<<"GET">>, <<"GET", "PATCH">>}
        /\ IF ApiPatch
           THEN Cardinality(records) = 1 /\ Cardinality(records') = 1
           ELSE records' = records
        /\ upc = "enumerate" /\ upc' = "patch" => Cardinality(records) = 1
        /\ upc = "enumerate" /\ Cardinality(records) # 1 =>
              result' \in {"Conflict", "ApiError"}
        /\ result' = "Conflict" =>
              Cardinality(records) # 1 /\ api_calls' = <<"GET">>

\* C12: update() updates in place exactly when the cached and the desired
\* state are CNAMEs of different targets; it then enumerates the records and
\* with exactly one issues one PATCH and neither DELETE nor POST, so the name
\* never is without a record; with another count it returns Conflict and
\* changes no record.
C12_JustUpdate == [][C12_Path /\ C12_Requests]_vars

\* a CNAME was retargeted in place
C12_Witness ==
    /\ upc = "idle"
    /\ result = "Ok"
    /\ path = "just_update"
    /\ api_calls = <<"GET", "PATCH">>
    /\ Cardinality(before) = 1
    /\ records = RecordsOf(desired[1])

\* ---- C13
C13_Path ==
    StateComputed =>
        ( path' = "full_cleanup" <=>
            \/ status_cache = None
            \/ /\ status_cache # desired'
               /\ ~(status_cache[1].type = "CName" /\ desired'[1].type = "CName") )

C13_Requests ==
    path = "full_cleanup" /\ upc # "idle" =>
      IF ~ApiStep THEN records' = records ELSE
        /\ Count(api_calls', "PATCH") = 0
        /\ upc = "enumerate" => api_calls' = <<"GET">>
        /\ ApiDelete => Count(api_calls, "POST") = 0
        /\ ApiCreate => records \cap before = {} \/ Count(api_calls, "POST") > 0
        /\ ApiCreate => Count(api_calls, "DELETE") = Cardinality(before)
        /\ result' = "Ok" =>
              /\ records' = RecordsOf(desired[1])
              /\ Count(api_calls', "DELETE") = Cardinality(before)
              /\ Count(api_calls', "POST") = Cardinality(RecordsOf(desired[1]))

\* C13: every other change of the state takes the full cleanup: the records
\* are enumerated, all of them are deleted before one is created, then one
\* CNAME or one record per address is created, and on success the name holds
\* exactly the created records.
C13_FullCleanup == [][C13_Path /\ C13_Requests]_vars

\* a CNAME was replaced by the addresses of two endpoints
C13_Witness ==
    /\ upc = "idle"
    /\ result = "Ok"
    /\ path = "full_cleanup"
    /\ before = {Record("CNAME", "E2")}
    /\ Cardinality(desired[1].ips) = 2
    /\ records = RecordsOf(desired[1])

\* ---- C14
C14_Step ==
    UpdateReturns =>
        IF result' = "Ok"
        THEN status_cache' = desired' /\ status_cache' # None
        ELSE /\ result' \in {"DnsError", "ApiError", "Conflict"}
             /\ status_cache' = None
             /\ attempts' = attempts + 1
             /\ last_active_endpoints' = last_active_endpoints
             /\ pc' = "update" \/ outcome' = "update_failed"

\* C14: when update() returns success the cache holds the desired state of
\* the call; when it returns an error (DnsError, ApiError, Conflict) the
\* cache is absent and the caller sees the failure.
C14_Cache == [][C14_Step]_vars

\* a failed update in place dropped the cache it started from
C14_Witness ==
    /\ upc = "idle"
    /\ result = "ApiError"
    /\ path = "just_update"
    /\ status_cache = None

\* ---- C15
\* C15: as long as nobody else changes the records, whenever no update() is
\* running and the cache is Some(s) the name holds exactly the records of s.
C15_CacheIsProvider ==
    ~tampered /\ upc = "idle" /\ status_cache # None =>
        records = RecordsOf(status_cache[1])

\* a success that followed a failed attempt of the same cycle
C15_Witness ==
    /\ ~tampered
    /\ upc = "idle"
    /\ pc = "select"
    /\ outcome = "installed"
    /\ attempts >= 2
    /\ status_cache # None
    /\ Cardinality(records) = 2
    /\ records = RecordsOf(status_cache[1])

\* ---- C16
\* {E1} is published and cached, and somebody added a second record
ConflictScenario ==
    /\ status_cache = Some(CName("E1"))
    /\ records = {Record("CNAME", "E1"), ExternalRecord}

C16_Step ==
    UpdateCall /\ ConflictScenario /\ ActiveNames(new_active_endpoints) = {"E1"} =>
        path' = "just_update"

\* C16 as stated: in the conflict scenario the next cycle that still selects
\* {E1} reaches the update-in-place path (and there returns Conflict).
C16_ConflictOnSameSelection == [][C16_Step]_vars

C16_SameSelection ==
    UpdateCall /\ ConflictScenario /\ ActiveNames(new_active_endpoints) = {"E1"} =>
        /\ path' = "no_change"
        /\ result' = "Ok"
        /\ api_calls' = <<>>
        /\ records' = records
        /\ status_cache' = status_cache

C16_OtherSelection ==
    UpdateCall /\ ConflictScenario /\ ActiveNames(new_active_endpoints) = {"E2"} =>
        path' = "just_update" /\ upc' = "enumerate"

C16_Conflict ==
    ApiEnumerate /\ path = "just_update" /\ Cardinality(records) # 1 =>
        /\ result' \in {"Conflict", "ApiError"}
        /\ status_cache' = None
        /\ records' = records

C16_Repair ==
    /\ StateComputed /\ attempts > 0 /\ conflict => path' = "full_cleanup"
    /\ UpdateReturns /\ conflict' /\ result' = "Ok" /\ path' = "full_cleanup" =>
          records' = RecordsOf(desired'[1])

\* C16 amended: in the conflict scenario a cycle that still selects {E1}
\* finds the cached state and requests nothing, so the second record stays; a
\* cycle that selects another single endpoint reaches the update-in-place
\* path, counts two records and returns Conflict, which drops the cache and
\* changes no record; the update() after it takes the full cleanup and on
\* success leaves exactly the one CNAME.
C16_Amended == [][C16_SameSelection /\ C16_OtherSelection /\ C16_Conflict /\ C16_Repair]_vars

\* the repair after a Conflict left the single CNAME to E2
C16_Witness ==
    /\ tampered
    /\ conflict
    /\ upc = "idle"
    /\ result = "Ok"
    /\ path = "full_cleanup"
    /\ before = {Record("CNAME", "E1"), ExternalRecord}
    /\ records = {Record("CNAME", "E2")}

\* ---- C17
C17_Step ==
    pc = "update" /\ attempts > 0 /\ conflict =>
        /\ ~(ApiDelete \/ ApiCreate)
        /\ last_active_endpoints' = last_active_endpoints

C17_Conflict ==
    UpdateReturns /\ result' = "Conflict" =>
        /\ status_cache' = None
        /\ records' = records
        /\ Count(api_calls', "DELETE") = 0 /\ Count(api_calls', "POST") = 0
        /\ last_active_endpoints' = last_active_endpoints
        /\ IF attempts' < RetryAttempts
           THEN pc' = "update"
           ELSE pc' = "select" /\ outcome' = "update_failed"

C17_Retry ==
    /\ StateComputed /\ attempts > 0 /\ conflict => path' = "full_cleanup"
    /\ last_active_endpoints' # last_active_endpoints =>
          UpdateReturns /\ result' = "Ok"

C18_Step ==
    UpdateReturns /\ result' # "Ok" => records' = before'

\* C18: whenever update() returns an error, the name holds the records it
\* held when the call began.
C18_ErrorsLeaveRecords == [][C18_Step]_vars

\* ------------------------------------------------- the monitor in detail
\* the thresholds from_yaml accepts are 1..255; the ends and one in between
Thresholds == {1, 2, MaxConfidence}

EndpointsMonitor == [e \in {"E1"} |-> Endpoint(10, None, TRUE)]

InitMonitor ==
    /\ endpoints = EndpointsMonitor
    /\ iteration_order = <<"E1">>
    /\ telegram = FALSE
    /\ healthy = [e \in Names |-> FALSE]
    /\ monitor = [e \in Names |-> "spawned"]
    /\ change_rx = <<>>
    /\ now = 0
    /\ last_active_endpoints = {}
    /\ status_cache = None
    /\ gauge_endpoint_selected = [e \in Names |-> 0]
    /\ pc = "select"
    /\ wakeup_at = None
    /\ slept = 0
    /\ healthy_endpoints = {}
    /\ new_prioritized_endpoint = None
    /\ new_active_endpoints = {}
    /\ attempts = 0
    /\ trigger = "none"
    /\ outcome = "none"
    /\ queue_and_send = None
    /\ ReconcilerIdle
    /\ NotifierIdle
    /\ ResolverIdle
    /\ threshold \in Thresholds
    /\ m_pc = "off"
    /\ confidence = 0
    /\ first_run = TRUE
    /\ last_dns_values = {}
    /\ last_problem = None
    /\ streak = 0

NextMonitor ==
    \/ ProbeStart
    \/ ProbeHead
    \/ ProbeSleep
    \/ ProbeResolve
    \/ ProbeRequest
    \/ RecvChangeEvent
    \/ CarrySticky
    \/ CloudflareUpdateOk
    \/ JoinNext

SpecMonitor == InitMonitor /\ [][NextMonitor]_vars

\* ---- C19
C19_Step ==
    /\ healthy'[MonitoredEndpoint] # healthy[MonitoredEndpoint]
          <=> change_rx' = Append(change_rx, EndpointHealthChanged(MonitoredEndpoint))
    /\ ProbeStart => healthy' = healthy /\ change_rx' = change_rx
    /\ ProbeHead /\ healthy[MonitoredEndpoint] = HealthyAt(confidence, threshold) =>
          healthy' = healthy /\ change_rx' = change_rx

\* C19: the monitor sends EndpointHealthChanged exactly in the steps that
\* change its endpoint's healthy flag, once per change; its initial write of
\* false changes nothing and sends nothing, and writing the value the flag
\* already has sends nothing.
C19_EventIffFlip == [][C19_Step]_vars

\* the flag went back to false after the endpoint had been installed
C19_Witness ==
    /\ ~healthy[MonitoredEndpoint]
    /\ last_active_endpoints # {}
    /\ m_pc = "sleep"
    /\ change_rx = <<EndpointHealthChanged(MonitoredEndpoint)>>

\* ---- C20
C20_Step ==
    healthy'[MonitoredEndpoint] /\ ~healthy[MonitoredEndpoint] =>
        ProbeHead /\ streak >= threshold

C20_Invariant ==
    m_pc = "sleep" /\ streak = threshold => healthy[MonitoredEndpoint]

\* C20: the flag is set to true only when the last `threshold` probes all
\* succeeded with no failed probe, missing marker or empty DNS answer between
\* them, and it is true when the monitor sleeps after the threshold-th
\* success in a row.
C20_Confidence == []C20_Invariant /\ [][C20_Step]_vars

\* healthy right after the second success of a threshold of two
C20_Witness ==
    /\ threshold = 2
    /\ streak = 2
    /\ confidence = 2
    /\ m_pc = "sleep"
    /\ healthy[MonitoredEndpoint]

\* ---- C21
\* a probe that succeeded
ProbeSucceeded == ProbeRequest /\ streak' > 0

C21_Step ==
    ProbeSucceeded => m_pc' = "head" /\ confidence' = confidence + 1

C21_Invariant ==
    /\ confidence <= threshold + 1
    /\ m_pc = "sleep" /\ streak >= threshold => healthy[MonitoredEndpoint]

\* C21: for every threshold from 1 to 255 a successful probe increments the
\* 8-bit confidence without overflow, and an endpoint whose last `threshold`
\* or more probes all succeeded is healthy whenever its monitor sleeps.
C21_NoOverflow == []C21_Invariant /\ [][C21_Step]_vars

\* ---- C22
\* a failed probe, a missing marker or an empty DNS answer
ProbeFailed ==
    \/ ProbeRequest /\ streak' = 0
    \/ ProbeResolve /\ m_pc' = "head" /\ last_dns_values' = {} /\ last_dns_values # {}

C22_Step ==
    /\ ProbeFailed => confidence' = 0 /\ m_pc' = "head"
    /\ ProbeFailed /\ ProbeResolve => last_problem' = Some("no DNS values")
    /\ ProbeHead /\ confidence = 0 /\ healthy[MonitoredEndpoint] =>
          /\ ~healthy'[MonitoredEndpoint]
          /\ change_rx' = Append(change_rx, EndpointHealthChanged(MonitoredEndpoint))

C22_Invariant ==
    m_pc = "sleep" /\ confidence = 0 => ~healthy[MonitoredEndpoint]

\* C22: one failed probe, one missing marker or one empty DNS answer resets
\* the confidence to 0, and the loop head that follows sets a healthy endpoint
\* to unhealthy and sends EndpointHealthChanged before the monitor sleeps; the
\* empty answer is recorded as last_problem "no DNS values".
C22_SingleFailure == []C22_Invariant /\ [][C22_Step]_vars

\* an installed endpoint lost its health to an empty DNS answer
C22_Witness ==
    /\ ~healthy[MonitoredEndpoint]
    /\ last_active_endpoints # {}
    /\ last_dns_values = {}
    /\ last_problem = Some("no DNS values")
    /\ confidence = 0
    /\ m_pc = "sleep"
    /\ EndpointHealthChanged(MonitoredEndpoint) \in {change_rx[i] : i \in 1..Len(change_rx)}

\* ---- C23
MonitorTerminated == \E e \in Names : monitor[e] = "terminated"

SelectorReturned ==
    /\ pc = "stopped"
    /\ \A e \in Names : monitor[e] \in {"terminated", "aborted"}

C23_Step ==
    pc = "stopped" => UNCHANGED <<selector, locals, reconciler>>

\* C23: once a monitor task has terminated the selector eventually leaves
\* its loop with every other monitor task aborted, and from then on it runs
\* no selection cycle and calls the provider no more.
C23_TerminationIsFatal ==
    /\ MonitorTerminated ~> SelectorReturned
    /\ [][C23_Step]_vars

\* the selector returned after it had installed an active set
C23_Witness ==
    /\ SelectorReturned
    /\ \E e \in Names : monitor[e] = "aborted"
    /\ last_active_endpoints # {}

\* ---------------------------------------------- the notifier in detail
InitNotifier ==
    /\ endpoints = EndpointsMonitor
    /\ iteration_order = <<"E1">>
    /\ telegram = TRUE
    /\ healthy = [e \in Names |-> FALSE]
    /\ monitor = [e \in Names |-> "running"]
    /\ change_rx = <<>>
    /\ now = 0
    /\ last_active_endpoints = {}
    /\ status_cache = None
    /\ gauge_endpoint_selected = [e \in Names |-> 0]
    /\ pc = "select"
    /\ wakeup_at = None
    /\ slept = 0
    /\ healthy_endpoints = {}
    /\ new_prioritized_endpoint = None
    /\ new_active_endpoints = {}
    /\ attempts = 0
    /\ trigger = "none"
    /\ outcome = "none"
    /\ queue_and_send = None
    /\ ReconcilerIdle
    /\ ProberIdle
    /\ ResolverIdle

\* initial_silence: absent, or one second
InitClock ==
    /\ InitNotifier
    /\ queue = <<>>
    /\ silence_until \in {None, Some(TicksPerSecond)}
    /\ wall_clock = 0
    /\ t_pc = "idle"
    /\ posted = <<>>

NextClock ==
    \/ \E message \in NextMessages(MaxMessages) : QueueAndSend(message)
    \/ SendPending
    \/ Post
    \/ WallClockTick

SpecNotifier == InitClock /\ [][NextClock]_vars

\* ---- C24
\* the texts of a sequence of entries or contents
Texts(q) == [i \in 1..Len(q) |-> q[i].text]

C24_Step ==
    Post =>
        \/ queue' = queue /\ posted' = posted /\ t_pc' = "idle"
        \/ /\ queue' = Tail(queue)
           /\ posted' = Append(posted, Prepare(Head(queue), wall_clock))

C24_Invariant ==
    /\ Texts(posted) \o Texts(queue) = [i \in 1..LastMessage |-> i]
    /\ \A i \in 1..Len(queue) : \A j \in 1..Len(queue) :
          i <= j => queue[i].created_at <= queue[j].created_at

\* C24: send() POSTs the front entry and removes it only after that POST
\* succeeded; a failed POST ends the drain with the queue as it was. So the
\* successful POSTs followed by the queue are the enqueued messages in the
\* order of their enqueueing, none missing.
C24_Fifo == []C24_Invariant /\ [][C24_Step]_vars

\* the second message waits behind the first, whose POST failed
C24_Witness ==
    /\ t_pc = "idle"
    /\ Len(queue) = 2
    /\ posted = <<>>
    /\ queue[1].created_at < queue[2].created_at

\* ---- C25
\* Enough messages to fill the queue after it has been drained once. The
\* clock's reading takes no part in the length check; it stands still.
MessagesToOverflow == (2 * QueueLimit) + 2

InitLimit ==
    /\ InitNotifier
    /\ NotifierIdle

NextLimit ==
    \/ \E message \in NextMessages(MessagesToOverflow) : QueueAndSend(message)
    \/ Post

SpecQueueLimit == InitLimit /\ [][NextLimit]_vars

\* C25: the queue holds at most 128 entries in every reachable state.
C25_AtMostLimit == Len(queue) <= QueueLimit

C25_Invariant ==
    /\ Len(queue) <= QueueLimit + 1
    /\ Len(queue) > QueueLimit => t_pc = "panicked"

C25_Step == Post => Len(queue) <= QueueLimit

\* C25 as the code has it: queue_and_send pushes before send() checks, so
\* the queue holds up to 129 entries; with more than 128 the send() that
\* follows the push has panicked, and no POST is attempted at that length.
C25_Amended == []C25_Invariant /\ [][C25_Step]_vars

\* the 129th entry arrived after some messages had been delivered
C25_Witness ==
    /\ t_pc = "panicked"
    /\ Len(queue) = QueueLimit + 1
    /\ posted # <<>>

\* ---- C26
\* a POST succeeded
Delivered == Post /\ posted' # posted

C26_StepOriginal ==
    Delivered =>
        (posted'[Len(posted')].delayed_from # None
            <=> wall_clock - Head(queue).created_at > DelayedAfter * TicksPerSecond)

\* C26: a message is sent with the delayed-message suffix if and only if more
\* than 10 seconds passed between its enqueueing and the send attempt.
C26_DelayedIffOverTen == [][C26_StepOriginal]_vars

C26_Step ==
    /\ Delivered =>
          LET content == posted'[Len(posted')]
              elapsed == wall_clock - Head(queue).created_at
          IN /\ content.text = Head(queue).text
             /\ content.delayed_from # None <=> elapsed >= (DelayedAfter + 1) * TicksPerSecond
             /\ content.delayed_from # None => content.delayed_from = Some(Head(queue).created_at)
    /\ Post => queue' \in {queue, Tail(queue)}
    /\ \A i \in 1..Len(queue) : i <= Len(queue') /\ queue'[i].text = queue[i].text =>
          queue'[i] = queue[i]

\* C26 as the code has it: the elapsed time is cut to whole seconds before it
\* is compared, so the suffix is added exactly from 11 full seconds on; it
\* carries the enqueue timestamp, and the queued entry is never rewritten.
C26_Amended == [][C26_Step]_vars

\* the first message went out late with the suffix, the second in time
C26_Witness ==
    /\ Len(posted) = 2
    /\ posted[1].delayed_from = Some(0)
    /\ posted[2].delayed_from = None
    /\ wall_clock >= (DelayedAfter + 1) * TicksPerSecond

\* ---- C27
\* the cycle is installed and queue_and_send is called
Notified == pc = "update" /\ pc' = "select" /\ queue_and_send' # None

C27_Step ==
    Notified =>
        LET message == Message(queue_and_send'[1])
            lines == message.lines
        IN /\ message.primary \in PrimaryNames(last_active_endpoints')
           /\ \A e \in Names : \E i \in 1..Len(lines) : lines[i] = ToTelegramString(e)
           /\ Len(lines) = Cardinality(Names)
           /\ \A i \in 1..Len(lines) : \A j \in 1..Len(lines) :
                 i <= j => Weight(lines[i].endpoint) <= Weight(lines[j].endpoint)

\* C27: the notification names the new primary and has one line for every
\* configured endpoint, in ascending order of weight, with its current health.
C27_AllEndpointsListed == [][C27_Step]_vars

\* ---------------------------------------------- the retry loops in detail
\* the retry values from_yaml accepts are 0..255; the ends and one in between
Retries == {0, 1, MaxConfidence}

InitResolver ==
    /\ endpoints = EndpointsMonitor
    /\ iteration_order = <<"E1">>
    /\ telegram = FALSE
    /\ healthy = [e \in Names |-> FALSE]
    /\ monitor = [e \in Names |-> "running"]
    /\ change_rx = <<>>
    /\ now = 0
    /\ last_active_endpoints = {}
    /\ status_cache = None
    /\ gauge_endpoint_selected = [e \in Names |-> 0]
    /\ pc = "select"
    /\ wakeup_at = None
    /\ slept = 0
    /\ healthy_endpoints = {}
    /\ new_prioritized_endpoint = None
    /\ new_active_endpoints = {}
    /\ attempts = 0
    /\ trigger = "none"
    /\ outcome = "none"
    /\ queue_and_send = None
    /\ ReconcilerIdle
    /\ ProberIdle
    /\ NotifierIdle
    /\ callee \in {"resolve", "perform"}
    /\ retry \in Retries
    /\ attempt = 0
    /\ r_pc = "idle"
    /\ answers = <<Answer({}), Answer({})>>
    /\ returned = Ok({})
    /\ made = 0

NextResolver ==
    \/ RetryCall
    \/ RetryAttempt

SpecResolver == InitResolver /\ [][NextResolver]_vars

\* ---- C28
C28_Step ==
    RetryAttempt /\ callee = "resolve" /\ r_pc' = "returned" /\ returned'.is_ok =>
        returned'.value = Addresses(answers'[1], "A") \cup Addresses(answers'[2], "AAAA")

\* C28: resolve() returns exactly the IPv4 addresses of the A records of the
\* first answer together with the IPv6 addresses of the AAAA records of the
\* second.
C28_Union == [][C28_Step]_vars

\* ---- C29
C29_Step ==
    RetryAttempt =>
        /\ r_pc' # "panicked"
        /\ made' <= retry + 1
        /\ r_pc' = "returned" =>
              LET last == IF callee = "resolve"
                          THEN ResolveOnce(answers'[1], answers'[2])
                          ELSE PerformOnce(answers'[1])
              IN returned' = last /\ (last.is_ok \/ made' = retry + 1)
        /\ r_pc' = "running" => made' <= retry

\* C29: for every accepted retry value resolve() and perform() make at most
\* retry + 1 attempts, return the result of the first attempt that succeeds,
\* and after retry + 1 failures return the failure of the last attempt.
C29_BoundedRetries == [][C29_Step]_vars

\* ---- C30
\* the non-primary sticky entries of last_active_endpoints whose time is over
ExpiredEntries ==
    {x \in last_active_endpoints :
        /\ ~x.primary
        /\ StickyDuration(x.endpoint) # None
        /\ x.timestamp + StickyDuration(x.endpoint)[1] <= now}

C30_Step ==
    /\ StickyExpired => ExpiredEntries # {}
    /\ CarrySticky /\ trigger = "sticky" =>
          /\ ExpiredEntries # {}
          /\ \A x \in ExpiredEntries : \A y \in new_active_endpoints' :
                y.endpoint = x.endpoint => y.primary
    /\ pc = "update" /\ trigger = "sticky" /\ outcome' = "installed" =>
          /\ ExpiredEntries # {}
          /\ last_active_endpoints' \cap ExpiredEntries = {}

\* C30: when the sticky timer fires, some non-primary sticky entry of
\* last_active_endpoints has since + sticky_duration <= now; the cycle that
\* follows does not carry such an entry, and if it installs, the new
\* last_active_endpoints is without it.
C30_TimerFindsExpired == [][C30_Step]_vars

\* the timer fired and the cycle selected without the expired entry; one
\* provider call failed, the next is about to be made
C30_Witness ==
    /\ pc = "update"
    /\ trigger = "sticky"
    /\ attempts = 1
    /\ ExpiredEntries # {}
    /\ \A y \in new_active_endpoints : y.primary

\* ------------------------------------------------- the telegram arm of select!
\* The selector waits in select!: one more second of the telegram sleep, which
\* was created when the select! was entered, has passed.
SleepStep ==
    /\ pc = "select"
    /\ t_pc = "idle"
    /\ slept < PendingSleep
    /\ slept' = slept + 1
    /\ UNCHANGED <<last_active_endpoints, status_cache, gauge_endpoint_selected, pc, wakeup_at,
                   trigger, outcome, queue_and_send>>
    /\ UNCHANGED <<config, notifier, resolver, reconciler, prober, healthy, monitor, change_rx,
                   now, locals>>

\* select!: the telegram arm. With pending messages its sleep is 30 seconds;
\* when it is over, send() is called and the loop continues.
PendingTimer ==
    /\ pc = "select"
    /\ t_pc = "idle"
    /\ telegram
    /\ queue # <<>>
    /\ slept = PendingSleep
    /\ SendBegin(queue)
    /\ slept' = 0
    /\ wakeup_at' = WakeupAt(last_active_endpoints, now)
    /\ UNCHANGED <<last_active_endpoints, status_cache, gauge_endpoint_selected, pc,
                   trigger, outcome, queue_and_send>>
    /\ UNCHANGED <<queue, silence_until, wall_clock, posted>>
    /\ UNCHANGED <<config, resolver, reconciler, prober, healthy, monitor, change_rx, now, locals>>

\* select!: the change_rx arm, taken while the selector is not inside send()
RecvWhileWaiting ==
    /\ t_pc = "idle"
    /\ RecvChangeEvent

InitDrain ==
    /\ InitNotifier
    /\ NotifierIdle

NextDrain ==
    \/ \E message \in NextMessages(MaxMessages) : QueueAndSend(message)
    \/ Post
    \/ SleepStep
    \/ PendingTimer
    \/ \E e \in Names : MonitorDnsValuesChanged(e)
    \/ RecvWhileWaiting

\* Time passes, the selector takes an event that is waiting, a POST that was
\* begun ends, the POSTs do not fail forever, and select! (polling its ready
\* arms in random order) does not pass over the telegram arm forever when it
\* is ready again and again.
SpecDrain ==
    /\ InitDrain
    /\ [][NextDrain]_vars
    /\ WF_vars(SleepStep)
    /\ WF_vars(RecvWhileWaiting)
    /\ WF_vars(Post)
    /\ SF_vars(Post /\ posted' # posted)
    /\ SF_vars(PendingTimer)

\* ---- C31
\* C31: while the notification queue is non-empty and POSTs eventually succeed,
\* every queued message is eventually delivered, also when change events that
\* do not change the primary keep arriving less than 30 seconds apart.
C31_EventuallyDelivered == (queue # <<>>) ~> (queue = <<>>)

\* C31: the firing telegram arm calls send() and starts no selection cycle.
C31_TimerStartsNoCycle ==
    [][PendingTimer => /\ pc' = "select"
                       /\ t_pc' = "sending"
                       /\ UNCHANGED <<last_active_endpoints, status_cache, records>>]_vars

C31_TimerFired == t_pc = "sending" /\ slept = 0 /\ Len(posted) = 0 /\ Len(queue) = 2

\* ---- C32
\* C32: every non-primary entry that a cycle puts into new_active_endpoints
\* belongs to the healthy set the same cycle read in its first step, also when
\* a monitor flips a healthy flag during the cycle; and in every installed
\* active set the primary has the lowest weight of all entries.
C32_PrimaryLowest ==
    \A x, y \in last_active_endpoints : x.primary => Weight(x.endpoint) <= Weight(y.endpoint)

C32_CarriedFromHealthySet ==
    CarrySticky =>
        \A x \in new_active_endpoints' : ~x.primary => x.endpoint \in healthy_endpoints

C32_HealthySetRespected == []C32_PrimaryLowest /\ [][C32_CarriedFromHealthySet]_vars

\* the same without a flip between the two reads of the flags
C32_WithoutFlip ==
    [][(CarrySticky /\ healthy_endpoints = {e \in Names : healthy[e]})
          => \A x \in new_active_endpoints' : ~x.primary => x.endpoint \in healthy_endpoints]_vars

\* ---- C34
\* C34: a periodic re-resolution that fails emits no event, leaves confidence,
\* healthy flag and remembered address set unchanged and sends no probe; a
\* successful one emits DnsValuesChanged exactly when its address set differs
\* from the remembered one, and then the remembered set is the new one.
C34_Failed ==
    /\ m_pc' = "head"
    /\ UNCHANGED <<change_rx, confidence, healthy, last_dns_values, last_problem>>

C34_Resolved(v) ==
    /\ last_dns_values' = v
    /\ healthy' = healthy
    /\ IF v # last_dns_values
       THEN change_rx' = Append(change_rx, [reason |-> "EndpointDnsValuesChanged",
                                            endpoint |-> MonitoredEndpoint])
       ELSE change_rx' = change_rx
    /\ m_pc' = "probe" => (v # {} /\ confidence' = confidence)

C34_ReResolution ==
    [][ProbeResolve =>
          \/ C34_Failed
          \/ \E v \in {{<<MonitoredEndpoint, "a">>}, {}} : C34_Resolved(v)]_vars

\* a changed address set was announced and is remembered
C34_Witness ==
    /\ m_pc = "probe"
    /\ ~first_run
    /\ last_dns_values = {<<MonitoredEndpoint, "a">>}
    /\ change_rx = <<[reason |-> "EndpointDnsValuesChanged", endpoint |-> MonitoredEndpoint]>>

\* ---- C36
\* C36: the selector never spins: after a cycle that was skipped (no healthy
\* endpoint, or 3 failed provider attempts) the sleep computed at the loop head
\* is greater than zero, also when last_active_endpoints holds a non-primary
\* sticky entry whose stickiness has expired.
C36_SkippedCycle ==
    /\ StickyExpired \/ RecvChangeEvent \/ CloudflareUpdate
    /\ pc' = "select"
    /\ outcome' \in {"no_healthy", "update_failed"}

C36_NoZeroSleep ==
    [][C36_SkippedCycle => (wakeup_at' = None \/ wakeup_at'[1] > now')]_vars

\* a timer-triggered cycle was skipped and the timer is due again at once
C36_Spinning ==
    /\ pc = "select"
    /\ outcome = "no_healthy"
    /\ attempts = 0
    /\ change_rx = <<>>
    /\ wakeup_at = Some(now)
    /\ ENABLED StickyExpired

\* ------------------------------------------------- Backend::run (backend.rs)
\* One step of the loop over last_active_endpoints of Backend::run.
BackendStickyStep(x, new_active, healthy_now, t) ==
    IF ~healthy_now[x.endpoint] THEN new_active
    ELSE IF StickyDuration(x.endpoint) = None THEN new_active
    ELSE IF \E y \in new_active : y.endpoint = x.endpoint THEN new_active
    ELSE IF x.primary
         THEN new_active \cup {Entry(x.endpoint, t, FALSE)}
         ELSE IF x.timestamp + StickyDuration(x.endpoint)[1] > t
              THEN new_active \cup {Entry(x.endpoint, x.timestamp, FALSE)}
              ELSE new_active

RECURSIVE BackendStickyEndpoints(_, _, _, _)
BackendStickyEndpoints(last_active, new_active, healthy_now, t) ==
    IF last_active = {} THEN new_active
    ELSE LET x == CHOOSE y \in last_active : TRUE
         IN BackendStickyEndpoints(last_active \ {x},
                                   BackendStickyStep(x, new_active, healthy_now, t),
                                   healthy_now, t)

\* Backend::run notifies only when there was a primary before and it changed.
BackendPrimaryChanged(last_prioritized, new_prioritized) ==
    /\ last_prioritized # None
    /\ last_prioritized[1].endpoint # new_prioritized.endpoint

\* ---- C35
\* the entry of the primary of last_active_endpoints that the carry step adds
DemotedPrimary(active) ==
    {x \in active : /\ ~x.primary
                    /\ \E y \in last_active_endpoints : y.primary /\ y.endpoint = x.endpoint}

StatusCacheLockedForComparison == FALSE

\* The MutexGuard `cache` of inner_update is taken for the comparison with the
\* desired state and lives until inner_update returns: it is held whenever the
\* call is past the comparison.
StatusCacheLocked == upc # "idle"

\* The MutexGuard `queue` of send() lives from its first line to its return.
QueueLocked == t_pc = "sending"

\* a request to the provider's API is in flight
ApiRequestInFlight == upc \in {"enumerate", "delete", "create", "patch"}

\* a POST to the notification provider is in flight
PostInFlight == t_pc = "sending" /\ queue # <<>>

\* The selector is one task: it is inside update(), inside queue_and_send() /
\* send(), or in the code around them. The monitors report one change at a time.
InitLocks ==
    /\ endpoints = EndpointsProvider
    /\ iteration_order = <<"E1", "E2">>
    /\ telegram = TRUE
    /\ healthy = [e \in Names |-> FALSE]
    /\ monitor = [e \in Names |-> "running"]
    /\ change_rx = <<>>
    /\ now = 0
    /\ last_active_endpoints = {}
    /\ status_cache = None
    /\ gauge_endpoint_selected = [e \in Names |-> 0]
    /\ pc = "select"
    /\ wakeup_at = None
    /\ slept = 0
    /\ healthy_endpoints = {}
    /\ new_prioritized_endpoint = None
    /\ new_active_endpoints = {}
    /\ attempts = 0
    /\ trigger = "none"
    /\ outcome = "none"
    /\ queue_and_send = None
    /\ ReconcilerIdle
    /\ ProberIdle
    /\ NotifierIdle
    /\ ResolverIdle

NextLocks ==
    \/ /\ t_pc = "idle"
       /\ \/ change_rx = <<>> /\ \E e \in Names : MonitorHealth(e)
          \/ RecvChangeEvent
          \/ CarrySticky
          \/ UpdateCall
          \/ ApiEnumerate
          \/ ApiDelete
          \/ ApiCreate
          \/ ApiPatch
    \/ /\ pc = "select"
       /\ queue_and_send # None
       /\ \E message \in NextMessages(MaxMessages) : QueueAndSend(message)
    \/ Post

SpecLocks == InitLocks /\ [][NextLocks]_vars

C33_HeldDuringRequests ==
    /\ ApiRequestInFlight => StatusCacheLocked
    /\ PostInFlight => QueueLocked
    /\ ~(StatusCacheLocked /\ QueueLocked)

C33_AcquiredFree ==
    /\ UpdateCall => ~StatusCacheLocked
    /\ (UpdateCall /\ desired' = None) => ~StatusCacheLocked'
    /\ (\E message \in NextMessages(MaxMessages) : QueueAndSend(message)) => ~QueueLocked

C39_RecordAfterSuccess ==
    [][(UpdateReturns /\ result' = "Ok") => records' # {}]_vars

\* the same for the calls whose desired state is not an empty address set
C39_UnlessNoAddress ==
    [][(UpdateReturns /\ result' = "Ok" /\ ~tampered' /\ desired' # Some(CNameWithSticky({})))
          => records' # {}]_vars

\* update() returned success for two selected endpoints and no record is left
C39_NoRecordLeft ==
    /\ upc = "idle"
    /\ result = "Ok"
    /\ ~tampered
    /\ Cardinality(new_active_endpoints) = 2
    /\ desired = Some(CNameWithSticky({}))
    /\ before # {}
    /\ records = {}

\* ------------------------------------------------ the ttl of the records
\* Three monitored endpoints, E2 and E3 sticky; the clock rests and nobody else
\* touches the name.
EndpointsTtl ==
    [e \in {"E1", "E2", "E3"} |->
        CASE e = "E1" -> Endpoint(10, None, TRUE)
          [] e = "E2" -> Endpoint(20, Some(1), TRUE)
          [] e = "E3" -> Endpoint(30, Some(1), TRUE)]

InitTtl ==
    /\ endpoints = EndpointsTtl
    /\ iteration_order = <<"E2", "E1", "E3">>
    /\ telegram = FALSE
    /\ healthy = [e \in Names |-> FALSE]
    /\ monitor = [e \in Names |-> "running"]
    /\ change_rx = <<>>
    /\ now = 0
    /\ last_active_endpoints = {}
    /\ status_cache = None
    /\ gauge_endpoint_selected = [e \in Names |-> 0]
    /\ pc = "select"
    /\ wakeup_at = None
    /\ slept = 0
    /\ healthy_endpoints = {}
    /\ new_prioritized_endpoint = None
    /\ new_active_endpoints = {}
    /\ attempts = 0
    /\ trigger = "none"
    /\ outcome = "none"
    /\ queue_and_send = None
    /\ ReconcilerIdle
    /\ ProberIdle
    /\ NotifierIdle
    /\ ResolverIdle

NextTtl ==
    \/ \E e \in Names : MonitorHealth(e)
    \/ RecvChangeEvent
    \/ CarrySticky
    \/ UpdateCall
    \/ ApiEnumerate
    \/ ApiDelete
    \/ ApiCreate
    \/ ApiPatch

SpecTtl == InitTtl /\ [][NextTtl]_vars

\* ---- C40
\* a step that ends a successful cycle
CycleInstalled == pc = "update" /\ pc' = "select" /\ outcome' = "installed"

\* C40: after every successful selector cycle every record the provider holds
\* for the managed name carries the minimum dns.ttl over the endpoints of the
\* installed active set, also when update() found the cache equal to the
\* desired state although the active set changed.
C40_TtlIsMinimum ==
    [][CycleInstalled =>
          \A p \in record_ttl' : p[2] = UpdateTtl(last_active_endpoints')]_vars

\* the same for the cycles whose last update() call changed the records
C40_UnlessNoChange ==
    [][(CycleInstalled /\ path' # "no_change") =>
          \A p \in record_ttl' : p[2] = UpdateTtl(last_active_endpoints')]_vars

\* a cycle was installed without a request and the records keep the ttl of E2
C40_StaleTtl ==
    /\ pc = "select"
    /\ outcome = "installed"
    /\ path = "no_change"
    /\ api_calls = <<>>
    /\ ActiveNames(last_active_endpoints) = {"E1", "E3"}
    /\ records # {}
    /\ \A p \in record_ttl : p[2] = DnsTtl("E2")

\* --------------------------------------------- the selector after a failure
\* Time passes; the selector takes a waiting event; select! (polling its ready
\* arms in random order) does not pass over the sticky timer forever; the cycle
\* that was begun runs to its end; the provider does not fail forever.
SpecRetry ==
    /\ InitFair
    /\ [][Next]_vars
    /\ WF_vars(Tick)
    /\ WF_vars(RecvChangeEvent)
    /\ SF_vars(StickyExpired)
    /\ WF_vars(CarrySticky)
    /\ WF_vars(CloudflareUpdate)
    /\ SF_vars(CloudflareUpdateOk)

\* ---- C38
\* the cycle was skipped after 3 failed attempts and the selector waits again
SkippedAfterFailures == pc = "select" /\ outcome = "update_failed" /\ attempts = RetryAttempts

\* C38: after a cycle that was skipped because all 3 provider attempts failed,
\* if the provider works again and no further health or DNS change occurs, the
\* selector still eventually runs another reconciliation (a further change
\* event, a pending sticky timer or a monitor that ended do not count against
\* the statement).
C38_RetriedEventually ==
    SkippedAfterFailures ~>
        \/ outcome = "installed"
        \/ pc # "select"
        \/ change_rx # <<>>
        \/ wakeup_at # None
        \/ \E e \in Names : monitor[e] = "terminated"

\* the selector waits after the skipped cycle with no event and no timer,
\* while the healthy endpoint is not the installed one
C38_Stuck ==
    /\ SkippedAfterFailures
    /\ change_rx = <<>>
    /\ wakeup_at = None
    /\ \A e \in Names : monitor[e] # "terminated"
    /\ \E e \in Names : healthy[e] /\ e \notin ActiveNames(last_active_endpoints)
    /\ ~ENABLED (RecvChangeEvent \/ StickyExpired \/ JoinNext \/ CarrySticky \/ CloudflareUpdate)

\* ------------------------------------ the selector with a working provider
\* The endpoints of the fallback configuration; every update() succeeds and
\* the address sets of the endpoints rest.
InitSettle ==
    /\ Init
    /\ iteration_order = <<"E2", "E1", "E3">>

NextSettle ==
    \/ Tick
    \/ \E e \in Names : MonitorStart(e)
    \/ \E e \in Names : MonitorHealth(e)
    \/ RecvChangeEvent
    \/ StickyExpired
    \/ JoinNext
    \/ CarrySticky
    \/ CloudflareUpdateOk

\* Time passes; the selector takes a waiting event; select! (polling its ready
\* arms in random order) does not pass over the sticky timer forever; the cycle
\* that was begun runs to its end.
SpecSettle ==
    /\ InitSettle
    /\ [][NextSettle]_vars
    /\ WF_vars(Tick)
    /\ WF_vars(RecvChangeEvent)
    /\ SF_vars(StickyExpired)
    /\ WF_vars(CarrySticky)
    /\ WF_vars(CloudflareUpdateOk)

\* ---- C37
\* the selector waits, every change event is consumed, an endpoint is healthy
Consumed ==
    /\ pc = "select"
    /\ change_rx = <<>>
    /\ \E e \in Names : healthy[e]

LowestWeightHealthy(e) ==
    /\ healthy[e]
    /\ \A f \in Names : healthy[f] => Weight(e) <= Weight(f)

OnlyPrimary ==
    \E x \in last_active_endpoints :
       /\ last_active_endpoints = {x}
       /\ x.primary
       /\ LowestWeightHealthy(x.endpoint)

\* the sticky windows of last_active_endpoints end within the modelled time
WindowsWithinHorizon ==
    \A x \in last_active_endpoints :
       (~x.primary /\ StickyDuration(x.endpoint) # None)
          => x.timestamp + StickyDuration(x.endpoint)[1] + WakeupCushion <= Horizon

HealthEventPending ==
    \E i \in DOMAIN change_rx : change_rx[i].reason = "EndpointHealthChanged"

C37_PrimaryIsLowestHealthy ==
    Consumed =>
        \E x \in last_active_endpoints : x.primary /\ LowestWeightHealthy(x.endpoint)

C37_StickyEntriesLeave ==
    (Consumed /\ WindowsWithinHorizon) ~>
        \/ OnlyPrimary
        \/ HealthEventPending
        \/ pc = "stopped"

\* C37: with a provider that always succeeds, once the selector has consumed
\* all pending change events (and at least one endpoint is healthy) the primary
\* of last_active_endpoints is a lowest-weight healthy endpoint; and unless a
\* healthy flag changes again, last_active_endpoints eventually contains only
\* that primary.
C37_Settles == []C37_PrimaryIsLowestHealthy /\ C37_StickyEntriesLeave

\* a cycle started by the sticky timer drops the sticky entry and keeps only
\* the lowest-weight healthy endpoint
C37_Witness ==
    /\ pc = "update"
    /\ trigger = "sticky"
    /\ change_rx = <<>>
    /\ Cardinality(last_active_endpoints) = 2
    /\ \E x \in new_active_endpoints :
          /\ new_active_endpoints = {x}
          /\ x.primary
          /\ LowestWeightHealthy(x.endpoint)
====
